---- MODULE Spec2Model ----
(***************************************************************************)
(* A state-machine model of the causal-graph core of appydam/cognitive:    *)
(*   src/src/core/graph/graph.py   CausalGraph                             *)
(*   src/src/core/graph/link.py    CausalLink                              *)
(*   src/src/engine/propagate.py   propagate, simulate_cascade, Cascade    *)
(*   src/src/learning/feedback.py  learn_from_outcomes                     *)
(*   src/src/validation/metrics.py calculate_accuracy/_calibration       *)
(*   src/src/graph/links.py        CausalLink, the class feedback.py uses  *)
(*                                                                         *)
(* Python floats are modelled as exact rationals [n, d] in lowest terms    *)
(* (d > 0), so products, quotients, clamps and comparisons are the real-   *)
(* number ones the code writes.                                            *)
(***************************************************************************)
EXTENDS Integers, Sequences, FiniteSets, TLC

(***************************************************************************)
(* Rational arithmetic (the float expressions of link.py / feedback.py).   *)
(***************************************************************************)
\* The arithmetic is written as recursive or plain functions applied to
\* values, wrapped in operators of the same meaning.
IAbs(i) == IF i < 0 THEN -i ELSE i

GCDf[a \in Nat, b \in Nat] == IF b = 0 THEN a ELSE GCDf[b, a % b]
GCD(a, b) == GCDf[a, b]

Rat == [n : Int, d : Nat \ {0}]

\* The rational n/d in lowest terms with a positive denominator.
Rf[n \in Int, d \in Int] ==
    LET s == IF d < 0 THEN -1 ELSE 1
        g == GCDf[IAbs(n), IAbs(d)]
    IN  [n |-> (s * n) \div g, d |-> (s * d) \div g]
R(n, d) == Rf[n, d]

RInt(i) == [n |-> i, d |-> 1]
RZero == RInt(0)
ROne == RInt(1)

\* a * b, cross-reduced first so that intermediate products stay small.
RMulf[a \in Rat, b \in Rat] ==
    LET g1 == GCDf[IAbs(a.n), b.d]
        g2 == GCDf[IAbs(b.n), a.d]
    IN  IF a.n = 0 \/ b.n = 0 THEN RZero
        ELSE [n |-> (a.n \div g1) * (b.n \div g2), d |-> (a.d \div g2) * (b.d \div g1)]
RMul(a, b) == RMulf[a, b]

RAddf[a \in Rat, b \in Rat] ==
    LET g == GCDf[a.d, b.d]
    IN  Rf[a.n * (b.d \div g) + b.n * (a.d \div g), (a.d \div g) * b.d]
RAdd(a, b) == RAddf[a, b]

RNegf[a \in Rat] == [n |-> -a.n, d |-> a.d]
RNeg(a) == RNegf[a]
RSub(a, b) == RAddf[a, RNegf[b]]
RAbsf[a \in Rat] == [n |-> IAbs(a.n), d |-> a.d]
RAbs(a) == RAbsf[a]

\* 1 / b for b # 0.
RInvf[b \in Rat] == IF b.n < 0 THEN [n |-> -b.d, d |-> -b.n] ELSE [n |-> b.d, d |-> b.n]
\* a / b for b # 0.
RDiv(a, b) == RMulf[a, RInvf[b]]

RLtf[a \in Rat, b \in Rat] ==
    LET g == GCDf[a.d, b.d]
    IN  a.n * (b.d \div g) < b.n * (a.d \div g)
RLt(a, b) == RLtf[a, b]
RLe(a, b) == ~RLtf[b, a]
RMaxf[a \in Rat, b \in Rat] == IF RLtf[a, b] THEN b ELSE a
RMax(a, b) == RMaxf[a, b]
RMinf[a \in Rat, b \in Rat] == IF RLtf[b, a] THEN b ELSE a
RMin(a, b) == RMinf[a, b]

\* floor(a) as an integer.
RFloor(a) == a.n \div a.d

\* Python's round(x, 3): the nearest multiple of 1/1000, ties to even.
Round3f[a \in Rat] ==
    LET x == RMulf[a, RInt(1000)]
        f == x.n \div x.d
        twice == RAddf[RMulf[x, RInt(2)], RInt(-2 * f)]   \* 2 * frac(x), in [0, 2)
        k == IF RLtf[twice, ROne] THEN f
             ELSE IF RLtf[ROne, twice] THEN f + 1
             ELSE IF f % 2 = 0 THEN f ELSE f + 1
    IN  Rf[k, 1000]
Round3(a) == Round3f[a]

(***************************************************************************)
(* Entity ids, ordered as Python orders the strings.                       *)
(***************************************************************************)
Ids == {"A", "B", "C"}
IdRank(x) == CASE x = "A" -> 1 [] x = "B" -> 2 [] x = "C" -> 3

RelTypes == {"supplier_to", "competes_with"}

\* A CausalLink (link.py:70-110); evidence and source_type are never read by
\* the operations modelled here. `cls` is the object's class: the repository
\* has two classes of this name, src.core.graph.link.CausalLink (this one)
\* and src.graph.links.CausalLink.
CausalLink(src, tgt, rel, strength, delay_mean, delay_std, confidence, direction) ==
    [cls |-> "core.graph.link", source |-> src, target |-> tgt, relationship_type |-> rel,
     strength |-> strength, delay_mean |-> delay_mean, delay_std |-> delay_std,
     confidence |-> confidence, direction |-> direction,
     historical_accuracy |-> R(1, 2), observation_count |-> 0,
     last_updated |-> "None"]

\* A CausalLink of src/graph/links.py:31-73: the same fields (relationship_type
\* is named `relationship` there) and the same sample_delay,
\* propagate_magnitude and propagate_confidence.
LegacyCausalLink(src, tgt, rel, strength, delay_mean, delay_std, confidence, direction) ==
    [CausalLink(src, tgt, rel, strength, delay_mean, delay_std, confidence, direction)
        EXCEPT !.cls = "graph.links"]

(***************************************************************************)
(* Sequence helpers (list.remove, list.append, sorted).                    *)
(***************************************************************************)
\* list.remove(x): the list without its first element equal to x.
RECURSIVE Remove(_, _)
Remove(s, x) ==
    IF s = <<>> THEN <<>>
    ELSE IF Head(s) = x THEN Tail(s)
    ELSE <<Head(s)>> \o Remove(Tail(s), x)

Range(s) == {s[i] : i \in 1..Len(s)}

\* Insert link x into a list sorted by target, after every element whose
\* target is <= x.target (what a stable sort does with ties).
RECURSIVE InsertByTarget(_, _)
InsertByTarget(s, x) ==
    IF s = <<>> THEN <<x>>
    ELSE IF IdRank(Head(s).target) <= IdRank(x.target)
         THEN <<Head(s)>> \o InsertByTarget(Tail(s), x)
         ELSE <<x>> \o s

\* sorted(links, key=lambda link: link.target): a stable sort.
RECURSIVE SortByTarget(_)
SortByTarget(s) ==
    IF s = <<>> THEN <<>>
    ELSE InsertByTarget(SortByTarget(SubSeq(s, 1, Len(s) - 1)), s[Len(s)])

(***************************************************************************)
(* CausalGraph as a value: entities, _outgoing, _incoming.                 *)
(* The two defaultdict(list) indices are total functions with <<>> for an  *)
(* absent key.                                                             *)
(***************************************************************************)
EmptyGraph ==
    [entities |-> {}, outgoing |-> [x \in Ids |-> <<>>], incoming |-> [x \in Ids |-> <<>>]]

\* CausalGraph.add_entity
add_entity(g, e) == [g EXCEPT !.entities = @ \cup {e}]

\* The first link of _outgoing[link.source] with link's target and
\* relationship_type (the loop of add_link), or <<>> when there is none.
ExistingLink(g, link) ==
    LET out == g.outgoing[link.source]
        hits == {i \in 1..Len(out) :
                    /\ out[i].target = link.target
                    /\ out[i].relationship_type = link.relationship_type}
    IN  IF hits = {} THEN <<>>
        ELSE <<out[CHOOSE i \in hits : \A j \in hits : i <= j]>>

\* add_link without the target check of graph.py:64-65.
add_link_no_target_check(g, link) ==
    IF link.source \notin g.entities THEN [graph |-> g, raised |-> "ValueError"]
    ELSE [graph |-> [g EXCEPT !.outgoing[link.source] = Append(@, link),
                              !.incoming[link.target] = Append(@, link)],
          raised |-> "None"]

\* add_link without the duplicate loop of graph.py:68-74.
add_link_no_dedup(g, link) ==
    IF link.source \notin g.entities \/ link.target \notin g.entities
    THEN [graph |-> g, raised |-> "ValueError"]
    ELSE [graph |-> [g EXCEPT !.outgoing[link.source] = Append(@, link),
                              !.incoming[link.target] = Append(@, link)],
          raised |-> "None"]

\* add_link that forgets graph.py:73, the removal from _incoming.
add_link_stale_incoming(g, link) ==
    IF link.source \notin g.entities \/ link.target \notin g.entities
    THEN [graph |-> g, raised |-> "ValueError"]
    ELSE
        LET ex == ExistingLink(g, link)
            out1 == IF ex = <<>> THEN g.outgoing[link.source]
                    ELSE Remove(g.outgoing[link.source], ex[1])
        IN  [graph |-> [g EXCEPT !.outgoing[link.source] = Append(out1, link),
                                 !.incoming[link.target] = Append(@, link)],
             raised |-> "None"]

\* CausalGraph.add_link: the graph after the call and the exception raised.
add_link(g, link) ==
    IF link.source \notin g.entities THEN [graph |-> g, raised |-> "ValueError"]
    ELSE IF link.target \notin g.entities THEN [graph |-> g, raised |-> "ValueError"]
    ELSE
        LET ex == ExistingLink(g, link)
            out1 == IF ex = <<>> THEN g.outgoing[link.source]
                    ELSE Remove(g.outgoing[link.source], ex[1])
            inc1 == IF ex = <<>> THEN g.incoming[link.target]
                    ELSE Remove(g.incoming[link.target], ex[1])
        IN  [graph |-> [g EXCEPT !.outgoing[link.source] = Append(out1, link),
                                 !.incoming[link.target] = Append(inc1, link)],
             raised |-> "None"]

\* get_outgoing without the sort of graph.py:106.
get_outgoing_unsorted(g, entity_id) == g.outgoing[entity_id]

\* CausalGraph.get_outgoing
get_outgoing(g, entity_id) == SortByTarget(g.outgoing[entity_id])

\* CausalGraph.get_incoming
get_incoming(g, entity_id) == g.incoming[entity_id]

\* CausalGraph.get_link: the first link from source to target, <<>> for None.
get_link(g, source, target) ==
    LET out == g.outgoing[source]
        hits == {i \in 1..Len(out) : out[i].target = target}
    IN  IF hits = {} THEN <<>>
        ELSE <<out[CHOOSE i \in hits : \A j \in hits : i <= j]>>

\* CausalGraph.iter_links, as a set.
AllLinks(g) == UNION {Range(g.outgoing[x]) : x \in Ids}

RECURSIVE SumLen(_, _)
SumLen(f, S) ==
    IF S = {} THEN 0
    ELSE LET x == CHOOSE y \in S : TRUE IN Len(f[x]) + SumLen(f, S \ {x})

\* CausalGraph.num_links
num_links(g) == SumLen(g.outgoing, Ids)

\* One pass of the for-loop of get_neighbors over current_level.
NextLevel(g, current_level) ==
    UNION {{l.target : l \in Range(get_outgoing(g, eid))}
            \cup {l.source : l \in Range(get_incoming(g, eid))} : eid \in current_level}

\* The remaining `todo` iterations of `for _ in range(depth)`.
RECURSIVE NeighborsLoop(_, _, _, _)
NeighborsLoop(g, neighbors, current_level, todo) ==
    IF todo = 0 THEN neighbors
    ELSE LET next_level == NextLevel(g, current_level)
             updated == neighbors \cup next_level
         IN  NeighborsLoop(g, updated, next_level \ updated, todo - 1)

\* CausalGraph.get_neighbors
get_neighbors(g, entity_id, depth) ==
    NeighborsLoop(g, {}, {entity_id}, depth) \ {entity_id}

(***************************************************************************)
(* Propagation engine (engine/propagate.py) as pure operators.             *)
(***************************************************************************)
\* CausalLink.propagate_magnitude scaled up instead of down.
propagate_magnitude_amplified(link, input_magnitude) ==
    RMul(RMul(input_magnitude, RAdd(ROne, link.strength)), link.direction)

\* CausalLink.propagate_magnitude
propagate_magnitude(link, input_magnitude) ==
    RMul(RMul(input_magnitude, link.strength), link.direction)

\* Confidence that does not decay over a link.
propagate_confidence_undecayed(link, input_confidence) == input_confidence

\* CausalLink.propagate_confidence
propagate_confidence(link, input_confidence) == RMul(input_confidence, link.confidence)

\* CausalLink.sample_delay: the values the call can return. random.gauss is a
\* nondeterministic choice, represented by the mean and one deviation either
\* side, each clamped by max(0, .).
sample_delay(link) ==
    IF link.delay_std = RZero THEN {link.delay_mean}
    ELSE {RMax(RZero, RSub(link.delay_mean, link.delay_std)),
          RMax(RZero, link.delay_mean),
          RMax(RZero, RAdd(link.delay_mean, link.delay_std))}

\* Event (propagate.py:13-26); event_type, timestamp and description are
\* never read by propagate.
Event(entity, magnitude) == [entity |-> entity, magnitude |-> magnitude]

\* A queue entry of propagate (propagate.py:252-253).
Entry(entity, magnitude, day, confidence, order, chain) ==
    [entity |-> entity, magnitude |-> magnitude, day |-> day,
     confidence |-> confidence, order |-> order, chain |-> chain]

\* The Effect appended for a popped entry (propagate.py:266-275).
Effect(entry) ==
    [entity |-> entry.entity, magnitude |-> entry.magnitude, day |-> entry.day,
     confidence |-> entry.confidence, cause_chain |-> entry.chain, order |-> entry.order]

\* The initial queue of propagate.
SeedQueue(ev) == <<Entry(ev.entity, ev.magnitude, RZero, ROne, 0, <<ev>>)>>

\* A key that also tells apart the days of two visits.
visit_key_with_day(entry) == <<entry.entity, Round3(entry.magnitude), entry.day>>

\* visit_key = (entity, round(magnitude, 3))
visit_key(entry) == <<entry.entity, Round3(entry.magnitude)>>

\* The stop conditions of propagate.py:277-285.
StopExpanding(entry, p) ==
    \/ entry.order >= p.max_order
    \/ RLt(entry.confidence, p.min_confidence)
    \/ RLt(RAbs(entry.magnitude), p.min_magnitude)
    \/ RLt(RInt(p.horizon_days), entry.day)

\* A child whose chain holds the event and the last link only.
Child_last_link_only(entry, link, d) ==
    Entry(link.target,
          propagate_magnitude(link, entry.magnitude),
          RAdd(entry.day, d),
          propagate_confidence(link, entry.confidence),
          entry.order + 1,
          <<Head(entry.chain), link>>)

\* The child of `entry` over `link` with sampled delay d (propagate.py:289-309).
Child(entry, link, d) ==
    Entry(link.target,
          propagate_magnitude(link, entry.magnitude),
          RAdd(entry.day, d),
          propagate_confidence(link, entry.confidence),
          entry.order + 1,
          Append(entry.chain, link))

\* No child is skipped.
BelowThresholds_never(child, p) == FALSE

\* The threshold checks on a child before it is enqueued (propagate.py:294-300).
BelowThresholds(child, p) ==
    \/ RLt(RAbs(child.magnitude), p.min_magnitude)
    \/ RLt(child.confidence, p.min_confidence)
    \/ RLt(RInt(p.horizon_days), child.day)

\* The entries the for-loop over get_outgoing(entity) appends, in order;
\* ds[i] is the delay sampled for the i-th link.
RECURSIVE Children(_, _, _, _, _)
Children(entry, links, ds, p, i) ==
    IF i > Len(links) THEN <<>>
    ELSE LET child == Child(entry, links[i], ds[i])
         IN  (IF BelowThresholds(child, p) THEN <<>> ELSE <<child>>)
             \o Children(entry, links, ds, p, i + 1)

\* Whether popping the head of the queue reaches the for-loop.
Expands(st, p) ==
    LET entry == Head(st.queue)
    IN  visit_key(entry) \notin st.visited /\ ~StopExpanding(entry, p)

\* The links the iteration walks, <<>> when it never reaches the for-loop.
LinksWalked(g, st, p) ==
    IF Expands(st, p) THEN get_outgoing(g, Head(st.queue).entity) ELSE <<>>

\* queue.pop(0) that leaves the entry in the queue.
PopRest_peek(q) == q

\* The queue after queue.pop(0).
PopRest(q) == Tail(q)

\* One iteration of `while queue` (propagate.py:255-309) on the run state
\* st = [queue, visited, effects], with ds the delays sampled in it.
PropIter(g, p, st, ds) ==
    LET entry == Head(st.queue)
        rest == PopRest(st.queue)
        key == visit_key(entry)
        \* the for-loop, applied to the value of graph.get_outgoing(entity)
        Walk[links \in {LinksWalked(g, st, p)}] == Children(entry, links, ds, p, 1)
    IN  IF key \in st.visited THEN [st EXCEPT !.queue = rest]
        ELSE [queue |-> rest \o Walk[LinksWalked(g, st, p)],
              visited |-> st.visited \cup {key},
              effects |-> IF entry.order > 0 THEN Append(st.effects, Effect(entry))
                          ELSE st.effects]

\* The sort key (e.day, e.confidence): ties by confidence ascending.
EffectKeyLt_ascending(a, b) ==
    \/ RLt(a.day, b.day)
    \/ a.day = b.day /\ RLt(a.confidence, b.confidence)

\* effects.sort(key=lambda e: (e.day, -e.confidence)): whether a's key is
\* less than b's key.
EffectKeyLt(a, b) ==
    \/ RLt(a.day, b.day)
    \/ a.day = b.day /\ RLt(b.confidence, a.confidence)

\* list.sort is stable: s[i] goes after every element of a smaller key and
\* after the earlier elements of an equal key.
SortPos(s, i) ==
    Cardinality({j \in 1..Len(s) : EffectKeyLt(s[j], s[i])})
    + Cardinality({j \in 1..i : ~EffectKeyLt(s[j], s[i]) /\ ~EffectKeyLt(s[i], s[j])})

\* effects.sort(...) of propagate.py:312.
SortEffects(s) == [k \in 1..Len(s) |-> s[CHOOSE i \in 1..Len(s) : SortPos(s, i) = k]]

\* The delays of a run in which every sample_delay returns delay_mean.
MeanDelays(links) == [i \in 1..Len(links) |-> links[i].delay_mean]

\* propagate run to its end with every sampled delay equal to delay_mean:
\* the sorted effects of the returned Cascade.
RECURSIVE RunToEnd(_, _, _)
RunToEnd(g, p, st) ==
    IF st.queue = <<>> THEN SortEffects(st.effects)
    ELSE RunToEnd(g, p, PropIter(g, p, st, MeanDelays(LinksWalked(g, st, p))))

propagate(ev, g, p) ==
    RunToEnd(g, p, [queue |-> SeedQueue(ev), visited |-> {}, effects |-> <<>>])

\* The graph after get_outgoing when it sorts the stored list in place.
get_outgoing_in_place(g, entity_id) == [g EXCEPT !.outgoing[entity_id] = SortByTarget(@)]

\* The graph after get_outgoing: sorted() builds a new list (graph.py:106).
after_get_outgoing(g, entity_id) == g

\* A graph built by add_entity for every id, then add_link in list order.
RECURSIVE BuildGraph(_, _)
BuildGraph(g, links) ==
    IF links = <<>> THEN g
    ELSE BuildGraph(add_link(g, Head(links)).graph, Tail(links))

AllEntities == [EmptyGraph EXCEPT !.entities = Ids]

\* add_link for each link of the list in turn, stopping at the first call
\* that raises: the graph so far and the exception.
RECURSIVE AddLinks(_, _)
AddLinks(g, links) ==
    IF links = <<>> THEN [graph |-> g, raised |-> "None"]
    ELSE LET res == add_link(g, Head(links))
         IN  IF res.raised # "None" THEN res ELSE AddLinks(res.graph, Tail(links))

\* The links subgraph passes to add_link, in order: for eid in entity_ids,
\* for link in self.get_outgoing(eid), if link.target in entity_ids
\* (graph.py:231-234). `order` is the order the iteration visits entity_ids in.
SubgraphLinks(g, order) ==
    LET Inside(link) == link.target \in Range(order)
        Out[i \in 0..Len(order)] ==
            IF i = 0 THEN <<>>
            ELSE Out[i - 1] \o SelectSeq(get_outgoing(g, order[i]), Inside)
    IN  Out[Len(order)]

\* subgraph that pulls in the targets of the listed entities' links instead
\* of dropping the links that leave the set.
subgraph_with_targets(g, order) ==
    LET InGraph(eid) == eid \in g.entities
        keys == SelectSeq(order, InGraph)
        Out[i \in 0..Len(order)] ==
            IF i = 0 THEN <<>> ELSE Out[i - 1] \o get_outgoing(g, order[i])
        links == Out[Len(order)]
        New(eid) == eid \notin Range(keys)
        targets == SelectSeq([k \in 1..Len(links) |-> links[k].target], New)
        res == AddLinks([EmptyGraph EXCEPT !.entities = Range(keys \o targets)], links)
    IN  [graph |-> res.graph, keys |-> keys \o targets, raised |-> res.raised]

\* subgraph that takes every outgoing link of the listed entities.
subgraph_no_target_filter(g, order) ==
    LET InGraph(eid) == eid \in g.entities
        keys == SelectSeq(order, InGraph)
        All(link) == TRUE
        Out[i \in 0..Len(order)] ==
            IF i = 0 THEN <<>> ELSE Out[i - 1] \o SelectSeq(get_outgoing(g, order[i]), All)
        res == AddLinks([EmptyGraph EXCEPT !.entities = Range(keys)], Out[Len(order)])
    IN  [graph |-> res.graph, keys |-> keys, raised |-> res.raised]

\* CausalGraph.subgraph(entity_ids), entity_ids iterated in `order`: the new
\* graph, the key order of its entities dict and the exception raised.
subgraph(g, order) ==
    LET InGraph(eid) == eid \in g.entities
        keys == SelectSeq(order, InGraph)
        res == AddLinks([EmptyGraph EXCEPT !.entities = Range(keys)],
                        SubgraphLinks(g, order))
    IN  [graph |-> res.graph, keys |-> keys, raised |-> res.raised]

\* CausalLink.to_dict (link.py:181-197): a dict of the fields.
link_to_dict(link) == [k \in DOMAIN link \ {"cls"} |-> link[k]]

\* The keys CausalLink.from_dict reads with data[...] (link.py:203-209).
RequiredKeys ==
    {"source", "target", "relationship_type", "strength", "delay_mean", "delay_std",
     "confidence"}

\* CausalLink.from_dict: <<link>>, or <<>> when a data[...] raises KeyError.
link_from_dict(data) ==
    IF ~(RequiredKeys \subseteq DOMAIN data) THEN <<>>
    ELSE LET Get(k, default) == IF k \in DOMAIN data THEN data[k] ELSE default
         IN  <<[cls |-> "core.graph.link", source |-> data.source, target |-> data.target,
                relationship_type |-> data.relationship_type,
                strength |-> data.strength, delay_mean |-> data.delay_mean,
                delay_std |-> data.delay_std, confidence |-> data.confidence,
                direction |-> Get("direction", ROne),
                historical_accuracy |-> Get("historical_accuracy", R(1, 2)),
                observation_count |-> Get("observation_count", 0),
                last_updated |-> Get("last_updated", "None")]>>

\* The except clause missing: the ValueError of add_link leaves from_dict.
LoadLink_uncaught(st, link_data) ==
    LET link == link_from_dict(link_data)
    IN  IF link = <<>> THEN [st EXCEPT !.raised = "KeyError"]
        ELSE LET res == add_link(st.graph, link[1])
             IN  [st EXCEPT !.graph = res.graph, !.raised = res.raised]

\* One iteration of the link loop of from_dict (graph.py:268-273) on
\* st = [graph, warnings, raised].
LoadLink(st, link_data) ==
    LET link == link_from_dict(link_data)
    IN  IF link = <<>> THEN [st EXCEPT !.raised = "KeyError"]
        ELSE LET res == add_link(st.graph, link[1])
             IN  IF res.raised = "ValueError" THEN [st EXCEPT !.warnings = @ + 1]
                 ELSE [st EXCEPT !.graph = res.graph]

\* CausalGraph.from_dict: the graph built, the warnings printed and the
\* exception raised. Entity.from_dict keeps the id.
from_dict(data) ==
    LET Loaded[i \in 0..Len(data.links)] ==
            IF i = 0
            THEN [graph |-> [EmptyGraph EXCEPT !.entities = Range(data.entities)],
                  warnings |-> 0, raised |-> "None"]
            ELSE IF Loaded[i - 1].raised # "None" THEN Loaded[i - 1]
            ELSE LoadLink(Loaded[i - 1], data.links[i])
    IN  Loaded[Len(data.links)]

(***************************************************************************)
(* Feedback loop (learning/feedback.py) as pure operators.                 *)
(***************************************************************************)
\* Outcome (feedback.py:13-19); observed_at is never read.
Outcome(entity, magnitude, timing_days) ==
    [entity |-> entity, magnitude |-> magnitude, timing_days |-> timing_days]

\* compare_prediction_to_outcome
compare_prediction_to_outcome(effect, outcome) ==
    [effect |-> effect,
     outcome |-> outcome,
     direction_correct |->
         \/ RLt(RZero, effect.magnitude) /\ RLt(RZero, outcome.magnitude)
         \/ RLt(effect.magnitude, RZero) /\ RLt(outcome.magnitude, RZero)
         \/ effect.magnitude = RZero /\ outcome.magnitude = RZero,
     magnitude_error |-> RAbs(RSub(effect.magnitude, outcome.magnitude)),
     timing_error |-> RAbs(RSub(effect.day, outcome.timing_days))]

\* The strength written back without its clamp.
ClampStrength_none(x) == x

\* max(0.01, min(0.99, new_strength)) of feedback.py:167.
ClampStrength(x) == RMax(R(1, 100), RMin(R(99, 100), x))

\* The strength branch without the cap of the adjustment at +/-10%.
UpdateStrength_uncapped(link, comparison, learning_rate) ==
    IF comparison.outcome.magnitude = RZero THEN link.strength
    ELSE LET predicted_contribution == RAbs(comparison.effect.magnitude)
             actual_contribution == RAbs(comparison.outcome.magnitude)
         IN  IF ~RLt(RZero, predicted_contribution) THEN link.strength
             ELSE LET ratio == RDiv(actual_contribution, predicted_contribution)
                      adjustment == RMul(RSub(ratio, ROne), learning_rate)
                  IN  ClampStrength(RMul(link.strength, RAdd(ROne, adjustment)))

\* The strength branch of _update_link (feedback.py:152-167).
UpdateStrength(link, comparison, learning_rate) ==
    IF comparison.outcome.magnitude = RZero THEN link.strength
    ELSE LET predicted_contribution == RAbs(comparison.effect.magnitude)
             actual_contribution == RAbs(comparison.outcome.magnitude)
         IN  IF ~RLt(RZero, predicted_contribution) THEN link.strength
             ELSE LET ratio == RDiv(actual_contribution, predicted_contribution)
                      raw == RMul(RSub(ratio, ROne), learning_rate)
                      adjustment == RMax(R(-1, 10), RMin(R(1, 10), raw))
                  IN  ClampStrength(RMul(link.strength, RAdd(ROne, adjustment)))

\* The delay branch without the final clamp of delay_std.
UpdateDelay_std_unclamped(link, comparison, learning_rate) ==
    IF ~RLt(RZero, comparison.timing_error) THEN <<link.delay_mean, link.delay_std>>
    ELSE LET actual_delay == comparison.outcome.timing_days
             delay_diff == RSub(actual_delay, link.delay_mean)
             mean == RMax(R(1, 10), RAdd(link.delay_mean, RMul(delay_diff, learning_rate)))
             std == IF RLt(link.delay_std, comparison.timing_error)
                    THEN RMul(link.delay_std, RAdd(ROne, RMul(learning_rate, R(1, 2))))
                    ELSE RMul(link.delay_std, RSub(ROne, RMul(learning_rate, R(1, 5))))
         IN  <<mean, std>>

\* The delay branch of _update_link (feedback.py:170-183): the new
\* <<delay_mean, delay_std>>.
UpdateDelay(link, comparison, learning_rate) ==
    IF ~RLt(RZero, comparison.timing_error) THEN <<link.delay_mean, link.delay_std>>
    ELSE LET actual_delay == comparison.outcome.timing_days
             delay_diff == RSub(actual_delay, link.delay_mean)
             mean == RMax(R(1, 10), RAdd(link.delay_mean, RMul(delay_diff, learning_rate)))
             std == IF RLt(link.delay_std, comparison.timing_error)
                    THEN RMul(link.delay_std, RAdd(ROne, RMul(learning_rate, R(1, 2))))
                    ELSE RMul(link.delay_std, RSub(ROne, RMul(learning_rate, R(1, 5))))
         IN  <<mean, RMax(R(1, 10), RMin(mean, std))>>

\* The confidence branch of _update_link (feedback.py:186-191).
UpdateConfidence(link, comparison, learning_rate) ==
    IF comparison.direction_correct
    THEN RMin(R(99, 100), RAdd(link.confidence, RMul(R(2, 100), learning_rate)))
    ELSE RMax(R(1, 10), RSub(link.confidence, RMul(R(5, 100), learning_rate)))

\* historical_accuracy after the update (feedback.py:196-198); count is the
\* incremented observation_count.
UpdateAccuracy(link, comparison, count) ==
    LET alpha == R(1, count + 1)
        accuracy == RSub(ROne, RMin(ROne, RDiv(comparison.magnitude_error,
                                               RMax(R(1, 100), RAbs(comparison.outcome.magnitude)))))
    IN  RAdd(RMul(RSub(ROne, alpha), link.historical_accuracy), RMul(alpha, accuracy))

\* _update_link: the link object after the call.
update_link(link, comparison, learning_rate) ==
    LET delay == UpdateDelay(link, comparison, learning_rate)
    IN  [link EXCEPT
            !.strength = UpdateStrength(link, comparison, learning_rate),
            !.delay_mean = delay[1],
            !.delay_std = delay[2],
            !.confidence = UpdateConfidence(link, comparison, learning_rate),
            !.observation_count = @ + 1,
            !.historical_accuracy = UpdateAccuracy(link, comparison, link.observation_count + 1),
            !.last_updated = "now"]

\* A link object is held by _outgoing[source] and by _incoming[target]: the
\* graph after the object `old` has been mutated into `new`.
MutateLink(g, old, new) ==
    LET Swap(s) == [i \in 1..Len(s) |-> IF s[i] = old THEN new ELSE s[i]]
    IN  [g EXCEPT !.outgoing[old.source] = Swap(@), !.incoming[old.target] = Swap(@)]

\* outcomes_by_entity = {o.entity: o for o in outcomes}: a later outcome of
\* an entity overwrites an earlier one.
outcomes_by_entity(outcomes) ==
    [e \in {outcomes[i].entity : i \in 1..Len(outcomes)} |->
        outcomes[CHOOSE i \in 1..Len(outcomes) :
                    /\ outcomes[i].entity = e
                    /\ \A j \in 1..Len(outcomes) : outcomes[j].entity = e => j <= i]]

\* The comparisons of feedback.py:104-108, in the order of cascade.effects.
RECURSIVE Matched(_, _)
Matched(cascade_effects, byEntity) ==
    IF cascade_effects = <<>> THEN <<>>
    ELSE LET effect == Head(cascade_effects)
         IN  (IF effect.entity \in DOMAIN byEntity
              THEN <<compare_prediction_to_outcome(effect, byEntity[effect.entity])>>
              ELSE <<>>)
             \o Matched(Tail(cascade_effects), byEntity)

\* isinstance(item, CausalLink), where CausalLink is the class feedback.py:8
\* imports from ..graph, i.e. src.graph.links.CausalLink. The chain's first
\* item is the Event.
IsCausalLink(item) == "cls" \in DOMAIN item /\ item.cls = "graph.links"

\* The (comparison, chain item) pairs the two nested loops of
\* feedback.py:119-124 visit, in order.
RECURSIVE UpdateTasks(_)
UpdateTasks(matched) ==
    IF matched = <<>> THEN <<>>
    ELSE LET comparison == Head(matched)
             chain == comparison.effect.cause_chain
             links == SelectSeq(chain, IsCausalLink)
         IN  [i \in 1..Len(links) |-> [comparison |-> comparison, item |-> links[i]]]
             \o UpdateTasks(Tail(matched))

\* feedback.py:126-133 for one pair: look the link up, update it in place.
\* st = [graph, links_updated].
UpdateOne(st, task, learning_rate) ==
    LET graph_link == get_link(st.graph, task.item.source, task.item.target)
    IN  IF graph_link = <<>> THEN st
        ELSE [graph |-> MutateLink(st.graph, graph_link[1],
                                   update_link(graph_link[1], task.comparison, learning_rate)),
              links_updated |-> st.links_updated + 1]

\* The link objects and graphs, as sets of values.
Links ==
    [cls : STRING, source : Ids, target : Ids, relationship_type : STRING,
     strength : Rat, delay_mean : Rat, delay_std : Rat, confidence : Rat, direction : Rat,
     historical_accuracy : Rat, observation_count : Nat, last_updated : STRING]

Graphs ==
    [entities : SUBSET Ids, outgoing : [Ids -> Seq(Links)], incoming : [Ids -> Seq(Links)]]

RECURSIVE RSum(_)
RSum(s) == IF s = <<>> THEN RZero ELSE RAdd(Head(s), RSum(Tail(s)))

\* learn_from_outcomes: the graph after the call and the returned stats.
learn_from_outcomes(cascade_effects, outcomes, g, learning_rate) ==
    LET matched == Matched(cascade_effects, outcomes_by_entity(outcomes))
        n == Len(matched)
        tasks == UpdateTasks(matched)
        Step[st \in [graph : Graphs, links_updated : Nat], i \in 1..Len(tasks)] ==
            UpdateOne(st, tasks[i], learning_rate)
        After[i \in 0..Len(tasks)] ==
            IF i = 0 THEN [graph |-> g, links_updated |-> 0]
            ELSE Step[After[i - 1], i]
        end == After[Len(tasks)]
    IN  IF n = 0
        THEN [graph |-> g,
              stats |-> [links_updated |-> 0, predictions_matched |-> 0,
                         average_magnitude_error |-> RZero,
                         average_timing_error |-> RZero,
                         direction_accuracy |-> RZero]]
        ELSE [graph |-> end.graph,
              stats |-> [links_updated |-> end.links_updated,
                         predictions_matched |-> n,
                         average_magnitude_error |->
                             RDiv(RSum([i \in 1..n |-> matched[i].magnitude_error]), RInt(n)),
                         average_timing_error |->
                             RDiv(RSum([i \in 1..n |-> matched[i].timing_error]), RInt(n)),
                         direction_accuracy |->
                             R(Cardinality({i \in 1..n : matched[i].direction_correct}), n)]]

(***************************************************************************)
(* State                                                                   *)
(***************************************************************************)
VARIABLES
    entities,   \* CausalGraph.entities (the ids)
    outgoing,   \* CausalGraph._outgoing
    incoming,   \* CausalGraph._incoming
    ret,        \* the last call: its name, arguments, return value, exception
    event,      \* propagate: the event argument
    params,     \* propagate: horizon_days, min_confidence, min_magnitude, max_order
    queue,      \* propagate: the local `queue` of each call
    visited,    \* propagate: the local `visited` of each call
    effects,    \* propagate: the local `effects` of each call (the Cascade's, at return)
    pc,         \* propagate: where each call is: "idle", "loop", "done"
    cascade,    \* learn_from_outcomes: the effects of the cascade argument
    stats,      \* learn_from_outcomes: the returned stats
    calls,      \* learn_from_outcomes: calls made so far
    num_simulations, \* simulate_cascade: the num_simulations argument
    entity_effects,  \* simulate_cascade: the local `entity_effects`
    simulation,      \* simulate_cascade: iterations of the loop completed
    cascades,        \* history: the cascades the propagate calls of simulate_cascade returned
    predictions,     \* calculate_accuracy, calculate_calibration: the predictions argument
    actuals,         \* calculate_accuracy, calculate_calibration: the actuals argument
    num_bins         \* calculate_calibration: the num_bins argument

graphVars == <<entities, outgoing, incoming>>
propVars == <<event, params, queue, visited, effects, pc>>
learnVars == <<cascade, stats, calls>>
simVars == <<num_simulations, entity_effects, simulation, cascades>>
metricVars == <<predictions, actuals, num_bins>>
vars == <<entities, outgoing, incoming, ret, event, params, queue, visited, effects, pc,
          cascade, stats, calls, num_simulations, entity_effects, simulation, cascades,
          predictions, actuals, num_bins>>

\* The calls of propagate in flight: two calls on one shared graph.
Runs == {1, 2}

Graph == [entities |-> entities, outgoing |-> outgoing, incoming |-> incoming]

SetGraph(g) ==
    /\ entities' = g.entities
    /\ outgoing' = g.outgoing
    /\ incoming' = g.incoming

\* `note` records which branch the call took (it is not part of the program's
\* state): for add_link, whether a prior link was replaced.
Call(op, args, value, raised, note) ==
    [op |-> op, args |-> args, value |-> value, raised |-> raised, note |-> note]

\* Bounds of the model.
MaxLinks == 2
MaxDepth == 2

\* The links a caller may pass to add_link: one supplier_to link per ordered
\* pair of ids (self-loops and cycles included), and from "A" a second
\* supplier_to link of another strength (same triple, so a replacement) and
\* a competes_with link (same endpoints, another triple).
LinkInputs ==
    {CausalLink(s, t, "supplier_to", R(1, 2), ROne, RZero, R(4, 5), ROne) :
        s \in Ids, t \in Ids}
    \cup {CausalLink("A", t, "supplier_to", ROne, ROne, RZero, R(4, 5), ROne) : t \in Ids}
    \cup {CausalLink("A", t, "competes_with", R(1, 2), ROne, RZero, R(4, 5), RInt(-1)) :
            t \in Ids}

\* propagate's default arguments (propagate.py:227-230).
DefaultParams ==
    [horizon_days |-> 14, min_confidence |-> R(1, 10), min_magnitude |-> R(5, 1000),
     max_order |-> 5]

\* No propagate call has been made.
NoRuns ==
    /\ event = Event("A", RZero)
    /\ params = DefaultParams
    /\ queue = [r \in Runs |-> <<>>]
    /\ visited = [r \in Runs |-> {}]
    /\ effects = [r \in Runs |-> <<>>]
    /\ pc = [r \in Runs |-> "idle"]

\* No learn_from_outcomes call has been made.
NoLearning ==
    /\ cascade = <<>>
    /\ stats = <<>>
    /\ calls = 0

\* No simulate_cascade call has been made.
NoSimulation ==
    /\ num_simulations = 0
    /\ entity_effects = [x \in Ids |-> <<>>]
    /\ simulation = 0
    /\ cascades = <<>>

\* No metrics call is being made: empty lists, the default num_bins
\* (metrics.py:138).
NoMetrics ==
    /\ predictions = <<>>
    /\ actuals = <<>>
    /\ num_bins = 10

Init ==
    /\ entities = {}
    /\ outgoing = [x \in Ids |-> <<>>]
    /\ incoming = [x \in Ids |-> <<>>]
    /\ ret = Call("init", <<>>, <<>>, "None", "")
    /\ NoRuns
    /\ NoLearning
    /\ NoSimulation
    /\ NoMetrics

AddEntity(e) ==
    /\ SetGraph(add_entity(Graph, e))
    /\ ret' = Call("add_entity", <<>>, <<>>, "None", "")
    /\ UNCHANGED <<propVars, learnVars, simVars, metricVars>>

AddLink(link) ==
    LET res == add_link(Graph, link)
    IN  /\ num_links(res.graph) <= MaxLinks
        /\ SetGraph(res.graph)
        /\ ret' = Call("add_link", <<>>, <<>>, res.raised,
                       IF res.raised # "None" THEN "failed"
                       ELSE IF ExistingLink(Graph, link) # <<>> THEN "replaced"
                       ELSE "added")
        /\ UNCHANGED <<propVars, learnVars, simVars, metricVars>>

GetOutgoing(x) ==
    /\ ret' = Call("get_outgoing", <<x>>, get_outgoing(Graph, x), "None", "")
    /\ UNCHANGED <<graphVars, propVars, learnVars, simVars, metricVars>>

GetIncoming(x) ==
    /\ ret' = Call("get_incoming", <<x>>, get_incoming(Graph, x), "None", "")
    /\ UNCHANGED <<graphVars, propVars, learnVars, simVars, metricVars>>

GetNeighbors(x, depth) ==
    /\ ret' = Call("get_neighbors", <<x, depth>>, get_neighbors(Graph, x, depth), "None", "")
    /\ UNCHANGED <<graphVars, propVars, learnVars, simVars, metricVars>>

Next ==
    \/ \E e \in Ids : AddEntity(e)
    \/ \E link \in LinkInputs : AddLink(link)
    \/ \E x \in Ids : GetOutgoing(x)
    \/ \E x \in Ids : GetIncoming(x)
    \/ \E x \in Ids, depth \in 1..MaxDepth : GetNeighbors(x, depth)

Spec == Init /\ [][Next]_vars

(***************************************************************************)
(* Claims about CausalGraph, checked under Spec.                           *)
(***************************************************************************)
Triple(l) == <<l.source, l.target, l.relationship_type>>

\* The number of elements of s equal to x.
Count(s, x) == Cardinality({i \in 1..Len(s) : s[i] = x})

LinksOut(g) == UNION {Range(g.outgoing[x]) : x \in Ids}
LinksIn(g) == UNION {Range(g.incoming[x]) : x \in Ids}

\* Every position of the outgoing index, as <<key, index>>.
OutPositions(g) == UNION {{<<x, i>> : i \in 1..Len(g.outgoing[x])} : x \in Ids}

UniqueTriples(g) ==
    \A p, q \in OutPositions(g) :
        p # q => Triple(g.outgoing[p[1]][p[2]]) # Triple(g.outgoing[q[1]][q[2]])

MissingEndpoint(link) == link.source \notin entities \/ link.target \notin entities

\* C6: add_link with an absent source or target raises, and the failed call
\* leaves entities, _outgoing and _incoming exactly as they were.
C6_AddLinkFailsCleanly ==
    [][ret'.op = "add_link" =>
          \A link \in LinkInputs :
              (MissingEndpoint(link) /\ AddLink(link)) =>
                  /\ ret'.raised = "ValueError"
                  /\ UNCHANGED <<entities, outgoing, incoming>>]_vars

\* A failed add_link on a graph that already holds a link.
C6_Witness ==
    /\ ret.op = "add_link"
    /\ ret.raised = "ValueError"
    /\ num_links(Graph) > 0

\* C7: the graph never holds two links with one (source, target,
\* relationship_type); add_link of a present triple keeps num_links, stores
\* the new link and drops the prior one.
C7_OneLinkPerTriple ==
    [][/\ outgoing' # outgoing => UniqueTriples(Graph')
       /\ \A link \in LinkInputs :
            (ExistingLink(Graph, link) # <<>> /\ ~MissingEndpoint(link) /\ AddLink(link)) =>
                /\ num_links(Graph') = num_links(Graph)
                /\ link \in LinksOut(Graph')
                /\ \A l \in LinksOut(Graph') : Triple(l) = Triple(link) => l = link]_vars

\* add_link has replaced a link while another link is in the graph.
C7_Witness ==
    /\ ret.op = "add_link"
    /\ ret.note = "replaced"
    /\ num_links(Graph) = 2

\* C8: every link of either index is listed exactly once in
\* _outgoing[source] and exactly once in _incoming[target].
C8_IndicesConsistent ==
    \A l \in LinksOut(Graph) \cup LinksIn(Graph) :
        /\ Count(outgoing[l.source], l) = 1
        /\ Count(incoming[l.target], l) = 1
        /\ \A x \in Ids : x # l.source => Count(outgoing[x], l) = 0
        /\ \A x \in Ids : x # l.target => Count(incoming[x], l) = 0

\* get_incoming returned two links after calls that replaced or failed.
C8_Witness ==
    /\ ret.op = "get_incoming"
    /\ Len(ret.value) = 2

\* C9: get_outgoing(x) returns each link with source x exactly once, in
\* non-decreasing order of target id.
C9_OutgoingSorted ==
    ret.op = "get_outgoing" =>
        LET x == ret.args[1]
            v == ret.value
        IN  /\ Range(v) = {l \in LinksIn(Graph) : l.source = x}
            /\ Len(v) = Cardinality(Range(v))
            /\ \A i \in 1..Len(v) - 1 : IdRank(v[i].target) <= IdRank(v[i + 1].target)

\* get_outgoing returned two links that were inserted in descending target
\* order.
C9_Witness ==
    /\ ret.op = "get_outgoing"
    /\ Len(ret.value) = 2
    /\ ret.value # outgoing[ret.args[1]]

\* The entities within `depth` links of the entities in S, either direction.
RECURSIVE Within(_, _, _)
Within(g, S, depth) ==
    IF depth = 0 THEN S
    ELSE Within(g, S \cup {l.target : l \in {k \in LinksOut(g) : k.source \in S}}
                     \cup {l.source : l \in {k \in LinksOut(g) : k.target \in S}}, depth - 1)

\* C10: get_neighbors(id, depth) is the set of entities other than id within
\* depth links of id, links followed in either direction.
C10_NeighborsWithinDepth ==
    ret.op = "get_neighbors" =>
        ret.value = Within(Graph, {ret.args[1]}, ret.args[2]) \ {ret.args[1]}

(***************************************************************************)
(* SpecProp: two propagate calls over one shared graph; SpecPropFair: one.  *)
(***************************************************************************)
MaxPropLinks == 2

\* The links of the graphs propagated over. Strength and confidence are in
\* [0, 1] and direction in [-1, 1], as CausalLink documents them.
PropLinks ==
    { \* the two links of the documented A -> B -> C scenario
      CausalLink("A", "B", "supplier_to", R(1, 2), ROne, RZero, R(4, 5), ROne),
      CausalLink("B", "C", "competes_with", R(2, 5), ROne, RZero, R(3, 4), RInt(-1)),
      \* a lossless immediate back edge (a cycle through the trigger)
      CausalLink("B", "A", "supplier_to", ROne, RZero, RZero, ROne, ROne),
      \* a sign-flipping lossless self-loop
      CausalLink("A", "A", "competes_with", ROne, RZero, RZero, ROne, RInt(-1)),
      \* a link with a random delay
      CausalLink("A", "C", "supplier_to", R(1, 2), RInt(2), ROne, R(1, 2), ROne),
      \* a second A -> B link: same magnitude as the first, later and surer
      CausalLink("A", "B", "competes_with", R(1, 2), RInt(2), RZero, R(9, 10), ROne) }

PropLinkSeqs == UNION {[1..n -> PropLinks] : n \in 0..MaxPropLinks}

Events == {Event("A", R(-8, 100)), Event("B", R(5, 100))}

\* The arguments tried: the defaults, and each threshold tightened in turn.
ParamSets ==
    {DefaultParams,
     [DefaultParams EXCEPT !.horizon_days = 1],
     [DefaultParams EXCEPT !.min_confidence = R(7, 10)],
     [DefaultParams EXCEPT !.min_magnitude = R(6, 100)],
     [DefaultParams EXCEPT !.max_order = 1],
     [DefaultParams EXCEPT !.max_order = 0]}

\* A graph built from PropLinks, an event and arguments, and nothing run yet.
PropInputs ==
    /\ \E links \in PropLinkSeqs :
         LET g == BuildGraph(AllEntities, links)
         IN  /\ entities = g.entities
             /\ outgoing = g.outgoing
             /\ incoming = g.incoming
    /\ ret = Call("init", <<>>, <<>>, "None", "")
    /\ event \in Events
    /\ params \in ParamSets
    /\ queue = [r \in Runs |-> <<>>]
    /\ visited = [r \in Runs |-> {}]
    /\ effects = [r \in Runs |-> <<>>]
    /\ NoLearning
    /\ NoSimulation
    /\ NoMetrics

\* Both calls are about to be made.
InitProp ==
    /\ PropInputs
    /\ pc = [r \in Runs |-> "idle"]

\* The caller makes one call only; the second is never made.
InitPropOne ==
    /\ PropInputs
    /\ pc = [r \in Runs |-> IF r = 1 THEN "idle" ELSE "unused"]

RunState(r) == [queue |-> queue[r], visited |-> visited[r], effects |-> effects[r]]

\* `visited` kept across calls (a set shared by every call).
SharedVisited(r) == UNION {visited[q] : q \in Runs}

\* visited = set() at the start of a call (propagate.py:250).
FreshVisited(r) == {}

\* The delays the sample_delay calls of one iteration can return.
DelayVectors(links) ==
    {ds \in [1..Len(links) -> UNION {sample_delay(l) : l \in Range(links)}] :
        \A i \in 1..Len(links) : ds[i] \in sample_delay(links[i])}

\* propagate is called: propagate.py:249-253. The calls are interchangeable,
\* so call 1 is taken to be the one that starts first.
PropCall(r) ==
    /\ pc[r] = "idle"
    /\ \A q \in Runs : q < r => pc[q] # "idle"
    /\ queue' = [queue EXCEPT ![r] = SeedQueue(event)]
    /\ visited' = [visited EXCEPT ![r] = FreshVisited(r)]
    /\ effects' = [effects EXCEPT ![r] = <<>>]
    /\ pc' = [pc EXCEPT ![r] = "loop"]
    /\ UNCHANGED <<graphVars, ret, event, params, learnVars, simVars, metricVars>>

\* One iteration of `while queue`: propagate.py:255-309.
PropStep(r) ==
    /\ pc[r] = "loop"
    /\ queue[r] # <<>>
    /\ \E st \in {RunState(r)} :
         /\ \E links \in {LinksWalked(Graph, st, params)} :
              \E ds \in DelayVectors(links) :
                \E st2 \in {PropIter(Graph, params, st, ds)} :
                    /\ queue' = [queue EXCEPT ![r] = st2.queue]
                    /\ visited' = [visited EXCEPT ![r] = st2.visited]
                    /\ effects' = [effects EXCEPT ![r] = st2.effects]
         /\ IF Expands(st, params)
            THEN SetGraph(after_get_outgoing(Graph, Head(st.queue).entity))
            ELSE UNCHANGED graphVars
    /\ UNCHANGED <<ret, event, params, pc, learnVars, simVars, metricVars>>

\* The queue is empty: sort and return the Cascade (propagate.py:311-314).
PropReturn(r) ==
    /\ pc[r] = "loop"
    /\ queue[r] = <<>>
    /\ effects' = [effects EXCEPT ![r] = SortEffects(effects[r])]
    /\ pc' = [pc EXCEPT ![r] = "done"]
    /\ UNCHANGED <<graphVars, ret, event, params, queue, visited, learnVars, simVars, metricVars>>

NextProp ==
    \/ \E r \in Runs : PropCall(r)
    \/ \E r \in Runs : PropStep(r)
    \/ \E r \in Runs : PropReturn(r)

SpecProp == InitProp /\ [][NextProp]_vars

\* One propagate call, under the interpreter's scheduling: while the call
\* can take a step, a step is taken.
SpecPropFair == InitPropOne /\ [][NextProp]_vars /\ WF_vars(NextProp)

\* One propagate call, no assumption on scheduling.
SpecPropOne == InitPropOne /\ [][NextProp]_vars

(***************************************************************************)
(* Claims about propagate, checked under SpecProp / SpecPropFair.          *)
(***************************************************************************)
AllDone == \A r \in Runs : pc[r] = "done"

\* Every call that was made has returned.
AllReturned == \A r \in Runs : pc[r] \in {"done", "unused"}

Deterministic == \A l \in LinksOut(Graph) : l.delay_std = RZero

\* C1: every propagate call drains its queue and returns, on every graph
\* (cycles and self-loops included), event and choice of thresholds.
C1_Terminates == <>AllReturned

\* The call has returned effects from a graph with a cycle through the
\* trigger or a self-loop on it.
C1_Witness ==
    /\ AllReturned
    /\ Len(effects[1]) > 0
    /\ \E l \in LinksOut(Graph) : l.target = event.entity

\* C2: when every link has delay_std = 0, the two calls return the same
\* effects (every field, cause_chain included) in the same order.
C2_Deterministic == (AllDone /\ Deterministic) => effects[1] = effects[2]

\* Two calls over delay_std = 0 links have returned at least two effects.
C2_Witness ==
    /\ AllDone
    /\ Deterministic
    /\ Len(effects[1]) >= 2

\* e2's cause chain is e1's plus one link.
ChainExtends(e1, e2) ==
    /\ e2.order = e1.order + 1
    /\ SubSeq(e2.cause_chain, 1, Len(e1.cause_chain)) = e1.cause_chain

\* C3 as stated: no effect exceeds the trigger in |magnitude| or 1.0 in
\* confidence, and an effect one hop further along a cause chain is strictly
\* smaller in |magnitude| and in confidence.
C3_StrictDecay ==
    \A r \in Runs : \A e \in Range(effects[r]) :
        /\ RLe(RAbs(e.magnitude), RAbs(event.magnitude))
        /\ RLe(e.confidence, ROne)
        /\ \A e2 \in Range(effects[r]) :
             ChainExtends(e, e2) =>
                 /\ RLt(RAbs(e2.magnitude), RAbs(e.magnitude))
                 /\ RLt(e2.confidence, e.confidence)

\* C3 amended: as above, but one hop further along a cause chain |magnitude|
\* and confidence are smaller or equal (never larger).
C3_Decay ==
    \A r \in Runs : \A e \in Range(effects[r]) :
        /\ RLe(RAbs(e.magnitude), RAbs(event.magnitude))
        /\ RLe(e.confidence, ROne)
        /\ \A e2 \in Range(effects[r]) :
             ChainExtends(e, e2) =>
                 /\ RLe(RAbs(e2.magnitude), RAbs(e.magnitude))
                 /\ RLe(e2.confidence, e.confidence)

\* A call has emitted an effect and a second one a hop further on its chain.
C3_Witness ==
    \E r \in Runs : \E e, e2 \in Range(effects[r]) : ChainExtends(e, e2)

\* C5: no step of propagate changes entities, _outgoing or _incoming (order
\* and link fields included), and a call that returns while another call is
\* interleaved with it returns what a call run alone returns.
C5_GraphUntouched ==
    [][/\ UNCHANGED <<entities, outgoing, incoming>>
       /\ \A r \in Runs :
            (pc'[r] = "done" /\ Deterministic) =>
                effects'[r] = propagate(event, Graph, params)]_vars

\* Both calls are in their loops, each has emitted an effect, and the graph
\* stores the trigger's outgoing links out of target order.
C5_Witness ==
    /\ \A r \in Runs : pc[r] = "loop" /\ Len(effects[r]) > 0
    /\ outgoing[event.entity] # SortByTarget(outgoing[event.entity])

\* The documented two-link scenario: A -> B -> C, a shock of -0.08 on A, the
\* default thresholds.
Scenario ==
    /\ LinksOut(Graph) =
           {CausalLink("A", "B", "supplier_to", R(1, 2), ROne, RZero, R(4, 5), ROne),
            CausalLink("B", "C", "competes_with", R(2, 5), ROne, RZero, R(3, 4), RInt(-1))}
    /\ event = Event("A", R(-8, 100))
    /\ params = DefaultParams

\* The cascade call r returned has an effect of this entity, order, magnitude
\* and confidence.
HasEffect(r, entity, order, magnitude, confidence) ==
    \E i \in 1..Len(effects[r]) :
        /\ effects[r][i].entity = entity
        /\ effects[r][i].order = order
        /\ effects[r][i].magnitude = magnitude
        /\ effects[r][i].confidence = confidence

\* C14 as stated: in the scenario propagate returns an order-1 effect on B
\* of magnitude -0.04 and confidence 0.64, and an order-2 effect on C of
\* magnitude +0.016 and confidence 0.48.
C14_ScenarioAsStated ==
    \A r \in Runs :
        pc[r] = "done" /\ Scenario =>
            /\ HasEffect(r, "B", 1, R(-4, 100), R(64, 100))
            /\ HasEffect(r, "C", 2, R(16, 1000), R(48, 100))

\* Claim C14, amended: in the scenario propagate returns an order-1 effect on
\* B of magnitude -0.04 and confidence 0.8, and an order-2 effect on C of
\* magnitude +0.016 and confidence 0.6 (the seed's confidence is 1.0 and each
\* hop multiplies by the link's confidence).
C14_Scenario ==
    \A r \in Runs :
        pc[r] = "done" /\ Scenario =>
            /\ HasEffect(r, "B", 1, R(-4, 100), R(8, 10))
            /\ HasEffect(r, "C", 2, R(16, 1000), R(6, 10))

\* A call has returned the scenario's cascade of two effects.
C14_Witness == pc[1] = "done" /\ Scenario /\ Len(effects[1]) = 2

\* (entity, round(magnitude, 3)) of an effect or a queue entry.
DedupKey(e) == <<e.entity, Round3(e.magnitude)>>

\* Claim C15: propagate deduplicates by (entity, round(magnitude, 3)), first
\* visit winning. At every point of every call no two collected effects
\* share the key and none has the key of the trigger; and an iteration that
\* pops an entry whose key an earlier popped entry had emits nothing and
\* expands nothing (the queue only loses its head).
C15_FirstVisitWins ==
    [][\A r \in Runs :
         /\ \A i, j \in 1..Len(effects'[r]) :
                i # j => DedupKey(effects'[r][i]) # DedupKey(effects'[r][j])
         /\ \A i \in 1..Len(effects'[r]) : DedupKey(effects'[r][i]) # DedupKey(event)
         /\ (/\ pc[r] = "loop" /\ pc'[r] = "loop"
             /\ queue[r] # <<>>
             /\ queue'[r] # queue[r]
             /\ \/ DedupKey(Head(queue[r])) = DedupKey(event) /\ Head(queue[r]).order > 0
                \/ \E i \in 1..Len(effects[r]) :
                       DedupKey(effects[r][i]) = DedupKey(Head(queue[r])))
            => /\ effects'[r] = effects[r]
               /\ queue'[r] = Tail(queue[r])]_vars

\* Two parallel links carried the same shock to B: the call returned one
\* effect only.
C15_Witness ==
    /\ pc[1] = "done"
    /\ params = DefaultParams
    /\ event.entity = "A"
    /\ Len(outgoing["A"]) = 2
    /\ \A i \in 1..2 : outgoing["A"][i].target = "B"
    /\ Len(effects[1]) = 1

\* The seed entry of the call fails a stop condition.
SeedStops ==
    \/ params.max_order = 0
    \/ RLt(RAbs(event.magnitude), params.min_magnitude)
    \/ RLt(ROne, params.min_confidence)
    \/ params.horizon_days < 0

\* Claim C16: every effect a call has collected has 1 <= order <= max_order,
\* |magnitude| >= min_magnitude, confidence >= min_confidence and
\* day <= horizon_days; the seed (the trigger alone as cause chain) is not
\* among them; and when the seed fails a threshold or max_order is 0 the
\* call collects no effect.
C16_EffectsPassThresholds ==
    \A r \in Runs :
        /\ \A i \in 1..Len(effects[r]) :
               LET e == effects[r][i]
               IN  /\ 1 <= e.order /\ e.order <= params.max_order
                   /\ RLe(params.min_magnitude, RAbs(e.magnitude))
                   /\ RLe(params.min_confidence, e.confidence)
                   /\ RLe(e.day, RInt(params.horizon_days))
                   /\ Len(e.cause_chain) = e.order + 1
        /\ SeedStops => effects[r] = <<>>

\* A call returned one effect from A -> B -> C because the child on C was
\* below min_confidence.
C16_Witness ==
    /\ pc[1] = "done"
    /\ params.min_confidence = R(7, 10)
    /\ event.entity = "A"
    /\ Cardinality(LinksOut(Graph)) = 2
    /\ \E l \in LinksOut(Graph) : l.source = "B" /\ l.target = "C"
    /\ Len(effects[1]) = 1

\* Claim C17: the effects of a returned cascade are sorted by day ascending
\* and, among equal days, by confidence descending.
C17_SortedByDayThenConfidence ==
    \A r \in Runs :
        pc[r] = "done" =>
            \A i \in 1..(Len(effects[r]) - 1) :
                \/ RLt(effects[r][i].day, effects[r][i + 1].day)
                \/ /\ effects[r][i].day = effects[r][i + 1].day
                   /\ RLe(effects[r][i + 1].confidence, effects[r][i].confidence)

\* A returned cascade has two effects of the same day and different
\* confidence.
C17_Witness ==
    /\ pc[1] = "done"
    /\ \E i \in 1..(Len(effects[1]) - 1) :
           /\ effects[1][i].day = effects[1][i + 1].day
           /\ effects[1][i].confidence # effects[1][i + 1].confidence

\* The product, over the links of a cause chain, of F(link).
ChainProduct(chain, F(_)) ==
    LET Upto[k \in 1..Len(chain)] ==
            IF k = 1 THEN ROne ELSE RMul(Upto[k - 1], F(chain[k]))
    IN  Upto[Len(chain)]

\* The sum of delay_mean over the links of a cause chain.
ChainDelay(chain) ==
    LET Upto[k \in 1..Len(chain)] ==
            IF k = 1 THEN RZero ELSE RAdd(Upto[k - 1], chain[k].delay_mean)
    IN  Upto[Len(chain)]

\* Claim C28: every effect of propagate agrees with its own cause_chain: the
\* chain has order + 1 items, the first is the trigger event, the others are
\* links of the graph that form a connected path from event.entity to
\* effect.entity; the magnitude is event.magnitude times strength * direction
\* of every chain link, the confidence is the product of the chain links'
\* confidences, and when every chain link has delay_std = 0 the day is the
\* sum of their delay_mean.
C28_EffectMatchesCauseChain ==
    \A i \in 1..Len(effects[1]) :
        LET e == effects[1][i]
            chain == e.cause_chain
            Factor(l) == RMul(l.strength, l.direction)
            Confidence(l) == l.confidence
        IN  /\ Len(chain) = e.order + 1
            /\ chain[1] = event
            /\ \A k \in 2..Len(chain) :
                   /\ chain[k] \in LinksOut(Graph)
                   /\ chain[k].source = IF k = 2 THEN event.entity ELSE chain[k - 1].target
            /\ Len(chain) >= 2 /\ chain[Len(chain)].target = e.entity
            /\ e.magnitude = RMul(event.magnitude, ChainProduct(chain, Factor))
            /\ e.confidence = ChainProduct(chain, Confidence)
            /\ (\A k \in 2..Len(chain) : chain[k].delay_std = RZero)
               => e.day = ChainDelay(chain)

\* The call has returned a cascade with an effect of order 2, on a later
\* day, that came over a sign-flipping link.
C28_Witness ==
    /\ pc[1] = "done"
    /\ \E i \in 1..Len(effects[1]) :
           /\ effects[1][i].order = 2
           /\ effects[1][i].cause_chain[3].direction = RInt(-1)
           /\ RLt(RZero, effects[1][i].day)

(***************************************************************************)
(* SpecLearn: learn_from_outcomes called repeatedly on one graph with the  *)
(* cascade a propagate call returned for it.                               *)
(***************************************************************************)
MaxLearnCalls == 2

\* The links of the graphs learnt on. Strength and confidence are within the
\* documented 0.0-1.0 (link.py:83, 92). Links of both classes are in use:
\* graph/builders/supply_chain.py builds src.graph.links objects,
\* graph/builders/sector.py src.core.graph.link objects, and
\* graph/builders/initial.py merges the two into one graph.
LearnLinks ==
    [ab |-> LegacyCausalLink("A", "B", "supplier_to", R(9, 10), ROne, RZero, R(49, 50), ROne),
     bc |-> LegacyCausalLink("B", "C", "competes_with", ROne, RZero, RZero, ROne, RInt(-1)),
     ab2 |-> LegacyCausalLink("A", "B", "competes_with", R(1, 2), RInt(2), RZero, R(1, 10), ROne),
     ac |-> LegacyCausalLink("A", "C", "supplier_to", R(1, 100), R(1, 10), RZero, R(1, 2), ROne),
     bc2 |-> CausalLink("B", "C", "supplier_to", ROne, RZero, RZero, ROne, ROne),
     abc |-> CausalLink("A", "B", "supplier_to", R(9, 10), ROne, RZero, R(49, 50), ROne),
     ab3 |-> LegacyCausalLink("A", "B", "competes_with", R(1, 1000), ROne, RZero, R(1, 2), ROne)]

\* The graphs learnt on, as the add_link calls that built them (add_link of
\* src/graph/causal_graph.py:33-50 is add_link of graph.py line for line). No
\* graph has links of both classes between one pair of entities: the
\* duplicate check of add_link reads a field the other class lacks. Each
\* graph stores its outgoing lists in target order, so a traversal walks the
\* same order whether or not get_outgoing sorts.
LearnGraphs ==
    {<<LearnLinks.ab>>,
     <<LearnLinks.abc>>,
     <<LearnLinks.ab, LearnLinks.ac>>,
     <<LearnLinks.ab, LearnLinks.bc>>,
     <<LearnLinks.ab, LearnLinks.bc2>>,
     <<LearnLinks.ab, LearnLinks.ab2>>,
     <<LearnLinks.ab2, LearnLinks.ab>>,
     <<LearnLinks.ab3, LearnLinks.ab>>}

LearnEvent == Event("A", R(-1, 2))

\* The observed outcomes a caller may report.
Outcomes ==
    {Outcome("B", R(-9, 20), ROne),      \* what link ab predicts, on time
     Outcome("B", ROne, RInt(3)),        \* opposite direction, larger, late
     Outcome("B", RZero, ROne),          \* no move
     Outcome("C", R(1, 1000), RInt(3)),  \* small and late
     Outcome("C", ROne, RZero)}          \* large and immediate

OutcomeLists == UNION {[1..n -> Outcomes] : n \in 1..2}

\* The default rate is 0.1 (feedback.py:73); the docstring gives 0-1, the
\* signature takes any float.
LearningRates == {R(1, 2), RInt(-1)}

InitLearn ==
    /\ \E links \in LearnGraphs :
         LET g == BuildGraph(AllEntities, links)
         IN  /\ entities = g.entities
             /\ outgoing = g.outgoing
             /\ incoming = g.incoming
             /\ cascade = propagate(LearnEvent, g, DefaultParams)
    /\ ret = Call("init", <<>>, <<>>, "None", "")
    /\ event = LearnEvent
    /\ params = DefaultParams
    /\ queue = [r \in Runs |-> <<>>]
    /\ visited = [r \in Runs |-> {}]
    /\ effects = [r \in Runs |-> <<>>]
    /\ pc = [r \in Runs |-> "idle"]
    /\ NoSimulation
    /\ NoMetrics
    /\ stats = <<>>
    /\ calls = 0

\* One call learn_from_outcomes(cascade, outcomes, graph, learning_rate).
LearnFromOutcomes(outcomes, learning_rate) ==
    /\ calls < MaxLearnCalls
    /\ \E res \in {learn_from_outcomes(cascade, outcomes, Graph, learning_rate)} :
         /\ SetGraph(res.graph)
         /\ stats' = res.stats
         /\ ret' = Call("learn_from_outcomes", <<learning_rate, outcomes>>, res.stats,
                        "None", "")
    /\ calls' = calls + 1
    /\ UNCHANGED <<propVars, cascade, simVars, metricVars>>

NextLearn == \E outcomes \in OutcomeLists, learning_rate \in LearningRates :
                 LearnFromOutcomes(outcomes, learning_rate)

SpecLearn == InitLearn /\ [][NextLearn]_vars

(***************************************************************************)
(* Claims about learn_from_outcomes, checked under SpecLearn.              *)
(***************************************************************************)
InRange(l) ==
    /\ RLe(R(1, 100), l.strength) /\ RLe(l.strength, R(99, 100))
    /\ RLe(R(1, 10), l.confidence) /\ RLe(l.confidence, R(99, 100))
    /\ RLe(R(1, 10), l.delay_mean)

\* C4 as stated: after any number of learn_from_outcomes calls every link of
\* the graph has strength in [0.01, 0.99], confidence in [0.1, 0.99] and
\* delay_mean >= 0.1.
C4_RangeClamps == calls > 0 => \A l \in LinksOut(Graph) : InRange(l)

\* C4 amended: a link that is within the three ranges before a
\* learn_from_outcomes call with learning_rate >= 0 is within them after it.
C4_RangesPreserved ==
    [][(ret'.op = "learn_from_outcomes" /\ RLe(RZero, ret'.args[1])) =>
          \A l \in LinksOut(Graph) : \A l2 \in LinksOut(Graph') :
              (Triple(l2) = Triple(l) /\ InRange(l)) => InRange(l2)]_vars

\* After two calls every link is within the ranges, and one that was updated
\* twice sits on the strength clamp.
C4_Witness ==
    /\ calls >= 2
    /\ \A l \in LinksOut(Graph) : InRange(l)
    /\ \E l \in LinksOut(Graph) : l.observation_count >= 2 /\ l.strength = R(99, 100)

\* The first outcome of the list for each entity that has one.
FirstOutcomes(outcomes) ==
    [e \in {outcomes[i].entity : i \in 1..Len(outcomes)} |->
        outcomes[CHOOSE i \in 1..Len(outcomes) :
                    /\ outcomes[i].entity = e
                    /\ \A j \in 1..Len(outcomes) : outcomes[j].entity = e => i <= j]]

\* Claim C19: learn_from_outcomes compares each effect with the first
\* outcome of the list that has the effect's entity, and effects without an
\* outcome are left out: the returned predictions_matched, error averages
\* and direction accuracy are those of the effects paired with the first
\* outcome of their entity.
C19_FirstOutcomeWins ==
    ret.op = "learn_from_outcomes" =>
        LET expected == Matched(cascade, FirstOutcomes(ret.args[2]))
            n == Len(expected)
        IN  /\ ret.value.predictions_matched = n
            /\ n > 0 =>
                 /\ ret.value.average_magnitude_error =
                        RDiv(RSum([i \in 1..n |-> expected[i].magnitude_error]), RInt(n))
                 /\ ret.value.average_timing_error =
                        RDiv(RSum([i \in 1..n |-> expected[i].timing_error]), RInt(n))
                 /\ ret.value.direction_accuracy =
                        R(Cardinality({i \in 1..n : expected[i].direction_correct}), n)

\* The occurrences of the link of triple t in the cause chains of the
\* matched effects.
Occurrences(matched, t) ==
    LET InChain(i) ==
            {k \in 1..Len(matched[i].effect.cause_chain) :
                /\ "source" \in DOMAIN matched[i].effect.cause_chain[k]
                /\ Triple(matched[i].effect.cause_chain[k]) = t}
    IN  SumLen([i \in 1..Len(matched) |-> [k \in 1..Cardinality(InChain(i)) |-> k]],
               1..Len(matched))

\* Claim C20: a learn_from_outcomes call updates a link of the graph once
\* for each of its occurrences in the cause chains of the matched effects:
\* the link's observation_count grows by the number of these occurrences,
\* and links_updated is the total number of occurrences of all links.
C20_OneUpdatePerOccurrence ==
    [][ret'.op = "learn_from_outcomes" /\ calls' = calls + 1 =>
         LET matched == Matched(cascade, outcomes_by_entity(ret'.args[2]))
             Total[i \in 0..Len(matched)] ==
                 IF i = 0 THEN 0
                 ELSE Total[i - 1] + Len(matched[i].effect.cause_chain) - 1
         IN  /\ \A l \in LinksOut(Graph) : \A l2 \in LinksOut(Graph') :
                    Triple(l2) = Triple(l) =>
                        l2.observation_count =
                            l.observation_count + Occurrences(matched, Triple(l))
             /\ ret'.value.links_updated = Total[Len(matched)]]_vars

\* Claim C23: when an effect is matched to an outcome of the same direction
\* with zero error (magnitude and timing as predicted), the call strictly
\* increases the confidence of every link in the effect's cause chain and
\* leaves the strength of each within +/-10% of its value before the call.
C23_ZeroErrorRaisesConfidence ==
    [][ret'.op = "learn_from_outcomes" /\ calls' = calls + 1 =>
         LET matched == Matched(cascade, outcomes_by_entity(ret'.args[2]))
         IN  \A i \in 1..Len(matched) :
                 (/\ matched[i].direction_correct
                  /\ matched[i].magnitude_error = RZero
                  /\ matched[i].timing_error = RZero)
                 => \A k \in 2..Len(matched[i].effect.cause_chain) :
                      \A l \in LinksOut(Graph) : \A l2 \in LinksOut(Graph') :
                          (/\ Triple(l) = Triple(matched[i].effect.cause_chain[k])
                           /\ Triple(l2) = Triple(l))
                          => /\ RLt(l.confidence, l2.confidence)
                             /\ RLe(RMul(R(9, 10), l.strength), l2.strength)
                             /\ RLe(l2.strength, RMul(R(11, 10), l.strength))]_vars

\* The triples of the links in the cause chains of the matched effects.
TraversedTriples(matched) ==
    UNION {{Triple(matched[i].effect.cause_chain[k]) :
               k \in 2..Len(matched[i].effect.cause_chain)} : i \in 1..Len(matched)}

\* Claim C29: learn_from_outcomes changes only links traversed by a matched
\* effect: a link of the graph that occurs in no matched effect's cause chain
\* (a parallel link of another relationship_type included) has every field
\* unchanged after the call, and no entity or link is added or removed.
C29_OnlyTraversedLinksChange ==
    [][ret'.op = "learn_from_outcomes" /\ calls' = calls + 1 =>
         LET matched == Matched(cascade, outcomes_by_entity(ret'.args[2]))
         IN  /\ entities' = entities
             /\ {Triple(l) : l \in LinksOut(Graph')} = {Triple(l) : l \in LinksOut(Graph)}
             /\ num_links(Graph') = num_links(Graph)
             /\ \A l \in LinksOut(Graph) :
                    Triple(l) \notin TraversedTriples(matched) => l \in LinksOut(Graph')]_vars

(***************************************************************************)
(* Loading a graph from a document and cutting subgraphs out of it         *)
(* (graph.py: from_dict, subgraph).                                         *)
(***************************************************************************)

\* Bound of the model: the links of a document.
MaxDocLinks == 2

\* The "links" records of a document: to_dict output for A->B, B->C, C->A
\* and the self-loop A->A, a second A->B record of the same triple, a
\* hand-written A->B record
\* of another relationship with only the required keys, and a record that
\* lacks "strength".
LinkDicts ==
    {link_to_dict(CausalLink("A", "B", "supplier_to", R(1, 2), ROne, RZero, R(4, 5), ROne)),
     link_to_dict(CausalLink("B", "C", "competes_with", R(2, 5), ROne, RZero, R(3, 4),
                             RInt(-1))),
     link_to_dict(CausalLink("C", "A", "supplier_to", R(1, 2), ROne, RZero, R(4, 5), ROne)),
     link_to_dict(CausalLink("A", "A", "competes_with", R(1, 2), ROne, RZero, R(4, 5),
                             RInt(-1))),
     link_to_dict(CausalLink("A", "B", "supplier_to", ROne, ROne, RZero, R(4, 5), ROne)),
     [source |-> "A", target |-> "B", relationship_type |-> "competes_with",
      strength |-> R(1, 2), delay_mean |-> ROne, delay_std |-> RZero,
      confidence |-> R(1, 2)],
     [source |-> "B", target |-> "A", relationship_type |-> "supplier_to",
      delay_mean |-> ROne, delay_std |-> RZero, confidence |-> R(1, 2)]}

\* The "entities" lists of a document.
EntityLists == {<<>>, <<"A", "B", "C">>, <<"B", "A">>, <<"C">>}

\* The documents handed to from_dict.
Documents ==
    {[entities |-> es, links |-> ls] :
        es \in EntityLists,
        ls \in UNION {[1..n -> LinkDicts] : n \in 0..MaxDocLinks}}

\* The orders in which a set of ids can be iterated.
IdOrders ==
    {order \in UNION {[1..n -> Ids] : n \in 0..Cardinality(Ids)} :
        \A i, j \in 1..Len(order) : i # j => order[i] # order[j]}

\* graph = CausalGraph.from_dict(data), once, at start-up; an exception leaves
\* no graph bound.
LoadFromDict(data) ==
    /\ ret.op = "init"
    /\ LET res == from_dict(data)
       IN  /\ IF res.raised = "None" THEN SetGraph(res.graph) ELSE UNCHANGED graphVars
           /\ ret' = Call("from_dict", <<data>>, res.warnings, res.raised, "")
    /\ UNCHANGED <<propVars, learnVars, simVars, metricVars>>

\* graph.subgraph(entity_ids), the ids iterated in `order`.
Subgraph(order) ==
    /\ LET res == subgraph(Graph, order)
       IN  /\ SetGraph(after_get_outgoing(Graph, "A"))
           /\ ret' = Call("subgraph", <<order>>, [graph |-> res.graph, keys |-> res.keys],
                          res.raised, "")
    /\ UNCHANGED <<propVars, learnVars, simVars, metricVars>>

NextLoad ==
    \/ \E data \in Documents : LoadFromDict(data)
    \/ \E order \in IdOrders : Subgraph(order)

SpecLoad == Init /\ [][NextLoad]_vars

\* Claim C11: subgraph(ids) returns, without raising, a new graph whose
\* entities are exactly the graph's entities with an id in ids and whose
\* links (outgoing and incoming index alike, none twice) are exactly the
\* graph's links with source and target in ids; the graph subgraph is called
\* on is left as it was.
C11_SubgraphInduced ==
    [][ret'.op = "subgraph" =>
         LET ids == Range(ret'.args[1])
             sub == ret'.value.graph
             kept == {l \in LinksOut(Graph) : l.source \in ids /\ l.target \in ids}
         IN  /\ ret'.raised = "None"
             /\ sub.entities = entities \cap ids
             /\ LinksOut(sub) = kept
             /\ LinksIn(sub) = kept
             /\ num_links(sub) = Cardinality(kept)
             /\ SumLen(sub.incoming, Ids) = Cardinality(kept)
             /\ UNCHANGED graphVars]_vars

\* subgraph kept one link, dropped another, and was given an id the graph
\* does not have.
C11_Witness ==
    /\ ret.op = "subgraph"
    /\ LinksOut(ret.value.graph) # {}
    /\ LinksOut(ret.value.graph) # LinksOut(Graph)
    /\ ~(Range(ret.args[1]) \subseteq entities)

\* The same links, whatever their order.
SameLinks(s, t) ==
    /\ Len(s) = Len(t)
    /\ \A l \in Range(s) \cup Range(t) : Count(s, l) = Count(t, l)

\* Claim C12: subgraph is idempotent. Taking the subgraph of the graph over
\* the ids of the entities of subgraph(S) gives subgraph(S) again: the same
\* entities, the same outgoing list of every entity and the same links in the
\* incoming list of every entity, in whatever order the ids are iterated;
\* iterated in the key order of the result's entities, the incoming lists are
\* the same lists too.
C12_SubgraphIdempotent ==
    ret.op = "subgraph" /\ ret.raised = "None" =>
        LET first == ret.value
        IN  /\ \A order \in IdOrders :
                  Range(order) = first.graph.entities =>
                      LET again == subgraph(Graph, order)
                      IN  /\ again.raised = "None"
                          /\ again.graph.entities = first.graph.entities
                          /\ again.graph.outgoing = first.graph.outgoing
                          /\ \A x \in Ids :
                                 SameLinks(again.graph.incoming[x], first.graph.incoming[x])
            /\ subgraph(Graph, first.keys) =
                   [graph |-> first.graph, keys |-> first.keys, raised |-> "None"]

\* The result holds two parallel links, and the graph has more than the
\* result.
C12_Witness ==
    /\ ret.op = "subgraph"
    /\ \E x \in Ids : Len(ret.value.graph.outgoing[x]) = 2
    /\ ret.value.graph.entities # entities

\* Every "links" record of the document has the keys CausalLink.from_dict
\* needs.
WellFormed(data) == \A i \in 1..Len(data.links) : link_from_dict(data.links[i]) # <<>>

\* The records whose source or target is not among the listed entities.
Dangling(data) ==
    {i \in 1..Len(data.links) :
        \/ data.links[i].source \notin Range(data.entities)
        \/ data.links[i].target \notin Range(data.entities)}

\* Claim C13: loading never fails because of a dangling link. For a
\* document of well-formed records from_dict returns a graph: its entities
\* are all the listed ones; every record whose two endpoints are listed is
\* added (it is in the graph unless a later such record of the same triple
\* replaced it); every record with a missing source or target is skipped with
\* one warning each; and the graph has no other link.
C13_LoadSkipsDangling ==
    ret.op = "from_dict" /\ WellFormed(ret.args[1]) =>
        LET data == ret.args[1]
            link(i) == link_from_dict(data.links[i])[1]
            sound == (1..Len(data.links)) \ Dangling(data)
        IN  /\ ret.raised = "None"
            /\ entities = Range(data.entities)
            /\ \A i \in sound :
                   \/ link(i) \in LinksOut(Graph)
                   \/ \E j \in sound : j > i /\ Triple(link(j)) = Triple(link(i))
            /\ \A l \in LinksOut(Graph) : \E i \in sound : l = link(i)
            /\ LinksIn(Graph) = LinksOut(Graph)
            /\ \A i \in Dangling(data) : link(i) \notin LinksOut(Graph)
            /\ ret.value = Cardinality(Dangling(data))

\* A document with a dangling record and a record that was added.
C13_Witness ==
    /\ ret.op = "from_dict"
    /\ WellFormed(ret.args[1])
    /\ Dangling(ret.args[1]) # {}
    /\ LinksOut(Graph) # {}

(***************************************************************************)
(* SpecSim: simulate_cascade (propagate.py:401-445), its propagate calls   *)
(* taken step by step so that every sampled delay is tried.                *)
(***************************************************************************)

\* Bound of the model: num_simulations.
MaxSimulations == 2

\* Call 1 of propagate is the one simulate_cascade has in flight.
SimRun == 1

\* simulate_cascade passes horizon_days on; the other thresholds keep their
\* defaults (propagate.py:427).
SimParams == {DefaultParams, [DefaultParams EXCEPT !.horizon_days = 1]}

InitSim ==
    /\ \E links \in PropLinkSeqs :
         LET g == BuildGraph(AllEntities, links)
         IN  /\ entities = g.entities
             /\ outgoing = g.outgoing
             /\ incoming = g.incoming
    /\ ret = Call("init", <<>>, <<>>, "None", "")
    /\ event \in Events
    /\ params \in SimParams
    /\ queue = [r \in Runs |-> <<>>]
    /\ visited = [r \in Runs |-> {}]
    /\ effects = [r \in Runs |-> <<>>]
    /\ pc = [r \in Runs |-> IF r = SimRun THEN "idle" ELSE "unused"]
    /\ NoLearning
    /\ num_simulations \in 0..MaxSimulations
    /\ entity_effects = [x \in Ids |-> <<>>]
    /\ simulation = 0
    /\ cascades = <<>>
    /\ NoMetrics

\* The magnitudes of the effects on entity x, in list order.
Magnitudes(effs, x) ==
    LET On(e) == e.entity = x
        sel == SelectSeq(effs, On)
    IN  [i \in 1..Len(sel) |-> sel[i].magnitude]

\* The aggregate of propagate.py:432-443 (std, p5 and p95 left out). An
\* entity is a key of entity_effects once a magnitude was appended for it.
Aggregate(ee, n) ==
    [x \in {y \in Ids : ee[y] # <<>>} |->
        [mean |-> RDiv(RSum(ee[x]), RInt(Len(ee[x]))),
         occurrences |-> Len(ee[x]),
         probability |-> RDiv(RInt(Len(ee[x])), RInt(n))]]

\* for _ in range(num_simulations): cascade = propagate(event, graph, horizon_days)
SimPropagate ==
    /\ ret.op = "init"
    /\ simulation < num_simulations
    /\ PropCall(SimRun)

\* for effect in cascade.effects: entity_effects[effect.entity].append(...)
SimCollect ==
    /\ pc[SimRun] = "done"
    /\ entity_effects' =
           [x \in Ids |-> entity_effects[x] \o Magnitudes(effects[SimRun], x)]
    /\ simulation' = simulation + 1
    /\ cascades' = Append(cascades, effects[SimRun])
    /\ pc' = [pc EXCEPT ![SimRun] = "idle"]
    /\ UNCHANGED <<graphVars, ret, event, params, queue, visited, effects, learnVars,
                   num_simulations, metricVars>>

\* The loop is over: aggregate and return.
SimReturn ==
    /\ ret.op = "init"
    /\ pc[SimRun] = "idle"
    /\ simulation = num_simulations
    /\ ret' = Call("simulate_cascade", <<num_simulations>>,
                   Aggregate(entity_effects, num_simulations), "None", "")
    /\ UNCHANGED <<graphVars, propVars, learnVars, simVars, metricVars>>

NextSim ==
    \/ SimPropagate
    \/ PropStep(SimRun)
    \/ PropReturn(SimRun)
    \/ SimCollect
    \/ SimReturn

SpecSim == InitSim /\ [][NextSim]_vars

\* The runs of the simulation in which entity x appeared at all.
RunsWith(x) ==
    {i \in 1..Len(cascades) : \E k \in 1..Len(cascades[i]) : cascades[i][k].entity = x}

\* Claim C18: for every entity in the result of simulate_cascade the
\* reported probability is the number of runs in which the entity appeared
\* at all divided by num_simulations, and so lies in (0, 1].
C18_ProbabilityIsFractionOfRuns ==
    ret.op = "simulate_cascade" =>
        \A x \in DOMAIN ret.value :
            /\ ret.value[x].probability =
                   RDiv(RInt(Cardinality(RunsWith(x))), RInt(num_simulations))
            /\ RLt(RZero, ret.value[x].probability)
            /\ RLe(ret.value[x].probability, ROne)

(***************************************************************************)
(* SpecUpdate: _update_link (feedback.py:138-201) applied to the link of a *)
(* one-link graph, for any prediction/outcome comparison.                  *)
(***************************************************************************)

\* Bound of the model: the _update_link calls on one link.
MaxUpdates == 2

\* The link updated: the links learnt on, and one with a delay spread.
UpdateLinks ==
    {LearnLinks.ab, LearnLinks.bc, LearnLinks.ab2, LearnLinks.ac,
     LegacyCausalLink("A", "B", "supplier_to", R(1, 2), ROne, RInt(2), R(1, 2), ROne)}

\* The predictions compared: what link ab predicts for the shock on A, and
\* an effect of magnitude 0 (Effect is a plain dataclass; propagate emits
\* such an effect when called with min_magnitude = 0).
UpdateEffects ==
    {[entity |-> "B", magnitude |-> m, day |-> ROne, confidence |-> R(49, 50),
      cause_chain |-> <<LearnEvent, LearnLinks.ab>>, order |-> 1] : m \in {R(-9, 20), RZero}}

\* The observed outcomes: on B, and one of a tenth of the predicted size.
UpdateOutcomes ==
    {o \in Outcomes : o.entity = "B"} \cup {Outcome("B", R(-9, 200), RInt(2))}

InitUpdate ==
    /\ \E link \in UpdateLinks :
         LET g == BuildGraph(AllEntities, <<link>>)
         IN  /\ entities = g.entities
             /\ outgoing = g.outgoing
             /\ incoming = g.incoming
    /\ ret = Call("init", <<>>, <<>>, "None", "")
    /\ NoRuns
    /\ NoLearning
    /\ NoSimulation
    /\ NoMetrics

\* _update_link(link, comparison, learning_rate) on a link of the graph.
UpdateLink(link, effect, outcome, learning_rate) ==
    /\ calls < MaxUpdates
    /\ LET comparison == compare_prediction_to_outcome(effect, outcome)
           new == update_link(link, comparison, learning_rate)
       IN  /\ SetGraph(MutateLink(Graph, link, new))
           /\ ret' = Call("_update_link", <<learning_rate, comparison, link>>, new, "None", "")
    /\ calls' = calls + 1
    /\ UNCHANGED <<propVars, cascade, stats, simVars, metricVars>>

NextUpdate ==
    \E link \in LinksOut(Graph), effect \in UpdateEffects, outcome \in UpdateOutcomes,
       learning_rate \in LearningRates :
        UpdateLink(link, effect, outcome, learning_rate)

SpecUpdate == InitUpdate /\ [][NextUpdate]_vars

\* clamp(x, lo, hi)
Clamp(x, lo, hi) == RMax(lo, RMin(hi, x))

\* The strength the stated formula gives.
StatedStrength(strength, comparison, learning_rate) ==
    LET ratio == RDiv(RAbs(comparison.outcome.magnitude), RAbs(comparison.effect.magnitude))
        adjustment == Clamp(RMul(RSub(ratio, ROne), learning_rate), R(-1, 10), R(1, 10))
    IN  Clamp(RMul(strength, RAdd(ROne, adjustment)), R(1, 100), R(99, 100))

\* C21 as stated: an update by a pair whose effect magnitude is not 0 sets
\* the strength to clamp(strength * (1 + adjustment), 0.01, 0.99); the
\* strength is left alone only when the effect magnitude is 0.
C21_StrengthFormula ==
    ret.op = "_update_link" =>
        LET comparison == ret.args[2]
            before == ret.args[3]
        IN  IF comparison.effect.magnitude # RZero
            THEN ret.value.strength =
                     StatedStrength(before.strength, comparison, ret.args[1])
            ELSE ret.value.strength = before.strength

\* Claim C21, amended: an update by a pair whose effect magnitude and
\* outcome magnitude are both not 0 sets the strength to
\* clamp(strength * (1 + adjustment), 0.01, 0.99); the strength is left
\* alone when the effect magnitude or the outcome magnitude is 0. The link
\* in the graph is the updated object.
C21_StrengthFormulaNonzero ==
    ret.op = "_update_link" =>
        LET comparison == ret.args[2]
            before == ret.args[3]
        IN  /\ IF comparison.effect.magnitude # RZero /\ comparison.outcome.magnitude # RZero
               THEN ret.value.strength =
                        StatedStrength(before.strength, comparison, ret.args[1])
               ELSE ret.value.strength = before.strength
            /\ ret.value \in LinksOut(Graph)

\* An update whose adjustment hit the cap of 10% and changed the strength.
C21_Witness ==
    /\ ret.op = "_update_link"
    /\ ret.args[2].effect.magnitude # RZero
    /\ ret.args[2].outcome.magnitude = ROne
    /\ ret.value.strength = RMul(ret.args[3].strength, R(11, 10))

\* C22 as stated: after an update the link's delay_mean is at least 0.1 and
\* its delay_std lies in [0.1, delay_mean].
C22_DelayRanges ==
    ret.op = "_update_link" =>
        /\ RLe(R(1, 10), ret.value.delay_mean)
        /\ RLe(R(1, 10), ret.value.delay_std)
        /\ RLe(ret.value.delay_std, ret.value.delay_mean)

\* Claim C22, amended: after an update by a pair whose timing error is not 0
\* the link's delay_mean is at least 0.1 and its delay_std lies in
\* [0.1, delay_mean], for every learning rate; an update by a pair of timing
\* error 0 leaves delay_mean and delay_std as they were.
C22_DelayRangesOnTimingError ==
    ret.op = "_update_link" =>
        IF ret.args[2].timing_error # RZero
        THEN /\ RLe(R(1, 10), ret.value.delay_mean)
             /\ RLe(R(1, 10), ret.value.delay_std)
             /\ RLe(ret.value.delay_std, ret.value.delay_mean)
        ELSE /\ ret.value.delay_mean = ret.args[3].delay_mean
             /\ ret.value.delay_std = ret.args[3].delay_std

\* An update with a timing error cut the delay_std of 2 down to the new
\* delay_mean.
C22_Witness ==
    /\ ret.op = "_update_link"
    /\ ret.args[2].timing_error # RZero
    /\ ret.args[3].delay_std = RInt(2)
    /\ ret.value.delay_std = ret.value.delay_mean
    /\ RLt(ret.value.delay_std, RInt(2))

(***************************************************************************)
(* Accuracy and calibration metrics (validation/metrics.py). A prediction  *)
(* and an actual are dicts: records whose optional keys ("day",            *)
(* "confidence") may be absent.                                            *)
(***************************************************************************)

\* The direction test of metrics.py:111 and 163-166.
SameSign(pred_mag, actual_mag) ==
    \/ RLt(RZero, pred_mag) /\ RLt(RZero, actual_mag)
    \/ RLt(pred_mag, RZero) /\ RLt(actual_mag, RZero)

\* A matching loop that pairs a prediction with the first actual whatever
\* its entity.
FirstActual_any_entity(pred, acts) ==
    IF acts = <<>> THEN <<>> ELSE <<acts[1]>>

\* The inner loop of metrics.py:85-88 and 160-171: the first actual of the
\* prediction's entity, as <<actual>>, or <<>> when there is none.
FirstActual(pred, acts) ==
    LET hits == {i \in 1..Len(acts) : acts[i].entity = pred.entity}
    IN  IF hits = {} THEN <<>>
        ELSE <<acts[CHOOSE i \in hits : \A j \in hits : i <= j]>>

\* `matched` of calculate_accuracy: the (pred, actual) pairs in the order of
\* the predictions.
MatchActuals(preds, acts) ==
    LET HasActual(pred) == FirstActual(pred, acts) # <<>>
        hit == SelectSeq(preds, HasActual)
    IN  [i \in 1..Len(hit) |-> <<hit[i], FirstActual(hit[i], acts)[1]>>]

\* np.mean of a non-empty list. The sum is exact, so it is taken pairwise
\* (as numpy does) without a change of value.
RMean(s) ==
    LET Total[lo \in 1..(Len(s) + 1), hi \in 0..Len(s)] ==
            IF hi < lo THEN RZero
            ELSE IF hi = lo THEN s[lo]
            ELSE RAdd(Total[lo, (lo + hi) \div 2], Total[(lo + hi) \div 2 + 1, hi])
    IN  RDiv(Total[1, Len(s)], RInt(Len(s)))

AccuracyMetrics(direction, mae, mape, timing, calibration, n) ==
    [direction_accuracy |-> direction, magnitude_mae |-> mae,
     magnitude_mape |-> mape, timing_mae |-> timing,
     calibration_error |-> calibration, n_predictions |-> n]

\* The early returns of calculate_accuracy.
ZeroAccuracy == AccuracyMetrics(RZero, RZero, RZero, RZero, RZero, 0)

calculate_accuracy(preds, acts) ==
    IF preds = <<>> \/ acts = <<>> THEN ZeroAccuracy
    ELSE LET matched == MatchActuals(preds, acts)
             n == Len(matched)
             AbsError(pair) == RAbs(RSub(pair[1].magnitude, pair[2].magnitude))
             NonZeroActual(pair) == pair[2].magnitude # RZero
             BothDays(pair) == "day" \in DOMAIN pair[1] /\ "day" \in DOMAIN pair[2]
             direction_correct ==
                 Cardinality({i \in 1..n :
                                 SameSign(matched[i][1].magnitude, matched[i][2].magnitude)})
             magnitude_errors == [i \in 1..n |-> AbsError(matched[i])]
             pct == SelectSeq(matched, NonZeroActual)
             magnitude_pct_errors ==
                 [i \in 1..Len(pct) |-> RDiv(AbsError(pct[i]), RAbs(pct[i][2].magnitude))]
             timed == SelectSeq(matched, BothDays)
             timing_errors ==
                 [i \in 1..Len(timed) |-> RAbs(RSub(timed[i][1].day, timed[i][2].day))]
         IN  IF n = 0 THEN ZeroAccuracy
             ELSE AccuracyMetrics(
                      R(direction_correct, n),
                      RMean(magnitude_errors),
                      IF magnitude_pct_errors = <<>> THEN RZero
                      ELSE RMean(magnitude_pct_errors),
                      IF timing_errors = <<>> THEN RZero ELSE RMean(timing_errors),
                      RZero,
                      n)

\* `results` of calculate_calibration (metrics.py:158-171).
CalibrationResults(preds, acts) ==
    LET matched == MatchActuals(preds, acts)
    IN  [i \in 1..Len(matched) |->
            [confidence |-> IF "confidence" \in DOMAIN matched[i][1]
                            THEN matched[i][1].confidence ELSE R(1, 2),
             correct |-> SameSign(matched[i][1].magnitude, matched[i][2].magnitude)]]

\* np.linspace(0, 1, nb + 1)[i], in exact arithmetic.
BinEdge(nb, i) == R(i, nb)

\* f"{x:.1f}" of a bin edge, as the number printed. No edge of the bin
\* counts used lies halfway between two tenths.
Format1(x) == R(RFloor(RAdd(RMul(x, RInt(10)), R(1, 2))), 10)

\* The key f"{bin_low:.1f}-{bin_high:.1f}" of bin i (0-based).
BinKey(nb, i) == <<Format1(BinEdge(nb, i)), Format1(BinEdge(nb, i + 1))>>

\* bin_results of bin i: bin_low <= confidence < bin_high.
BinResults(results, nb, i) ==
    LET InBin(r) == /\ RLe(BinEdge(nb, i), r.confidence)
                    /\ RLt(r.confidence, BinEdge(nb, i + 1))
    IN  SelectSeq(results, InBin)

\* The entry of bin_details for a non-empty bin (metrics.py:189-199).
BinDetail(results, nb, i) ==
    LET bin_results == BinResults(results, nb, i)
        expected_accuracy == RDiv(RAdd(BinEdge(nb, i), BinEdge(nb, i + 1)), RInt(2))
        IsCorrect(r) == r.correct
        actual_accuracy == R(Len(SelectSeq(bin_results, IsCorrect)), Len(bin_results))
    IN  [expected |-> expected_accuracy,
         actual |-> actual_accuracy,
         count |-> Len(bin_results),
         error |-> RAbs(RSub(expected_accuracy, actual_accuracy))]

\* calculate_calibration: (calibration_error, bin_details). A later bin with
\* the key of an earlier one overwrites its entry.
calculate_calibration(preds, acts, nb) ==
    LET results == CalibrationResults(preds, acts)
        filled == {i \in 0..(nb - 1) : BinResults(results, nb, i) # <<>>}
        IsFilled(i) == i \in filled
        order == SelectSeq([k \in 1..nb |-> k - 1], IsFilled)
        errors == [k \in 1..Len(order) |-> BinDetail(results, nb, order[k]).error]
    IN  IF preds = <<>> \/ acts = <<>> \/ results = <<>>
        THEN [calibration_error |-> RZero, bin_details |-> <<>>]
        ELSE [calibration_error |-> IF errors = <<>> THEN RZero ELSE RMean(errors),
              bin_details |->
                  [key \in {BinKey(nb, i) : i \in filled} |->
                      BinDetail(results, nb,
                                CHOOSE i \in filled :
                                    /\ BinKey(nb, i) = key
                                    /\ \A j \in filled : BinKey(nb, j) = key => j <= i)]]

(***************************************************************************)
(* The metrics applied to lists of predictions and actuals, next to        *)
(* learn_from_outcomes applied to a cascade and a list of outcomes.        *)
(***************************************************************************)

\* Bound of the model: the length of the prediction and actual lists.
MaxPredictions == 2

\* Predictions as Effect.to_dict() gives them and as hand-written dicts
\* (without "day", without "confidence"). An effect's confidence is a product
\* of link confidences from the documented 0.0-1.0, so it can be 1.
PredictionDicts ==
    {[entity |-> "A", magnitude |-> R(1, 10), day |-> ROne, confidence |-> R(9, 10)],
     [entity |-> "A", magnitude |-> RZero, confidence |-> ROne],
     [entity |-> "B", magnitude |-> R(-1, 10), day |-> RInt(2)]}

ActualDicts ==
    {[entity |-> "A", magnitude |-> R(1, 10), day |-> ROne],
     [entity |-> "A", magnitude |-> RZero],
     [entity |-> "B", magnitude |-> R(1, 5), day |-> RInt(3)],
     [entity |-> "C", magnitude |-> R(-1, 5), day |-> ROne]}

PredictionLists == UNION {[1..n -> PredictionDicts] : n \in 0..MaxPredictions}
ActualLists == UNION {[1..n -> ActualDicts] : n \in 0..MaxPredictions}

\* The num_bins arguments tried: the default and a single bin.
MetricBins == {1, 10}

\* 100 predictions of confidence 0.9, 90 of them direction-correct: 90 on A,
\* which moved as predicted, and 10 on B, which moved the other way.
CalibrationScenario ==
    [predictions |-> [i \in 1..100 |->
                         [entity |-> IF i <= 90 THEN "A" ELSE "B",
                          magnitude |-> R(1, 10), confidence |-> R(9, 10)]],
     actuals |-> <<[entity |-> "A", magnitude |-> R(1, 10)],
                   [entity |-> "B", magnitude |-> R(-1, 10)]>>,
     num_bins |-> 10]

\* An event on an entity without outgoing links: its cascade has no effects.
QuietEvent == Event("C", R(-1, 2))

\* The inputs: metric arguments next to an empty cascade, and the cascade of
\* LearnEvent next to empty metric arguments.
MetricInputs ==
    {[event |-> QuietEvent, predictions |-> p, actuals |-> a, num_bins |-> nb] :
        p \in PredictionLists, a \in ActualLists, nb \in MetricBins}
    \cup {[event |-> QuietEvent, predictions |-> CalibrationScenario.predictions,
           actuals |-> CalibrationScenario.actuals,
           num_bins |-> CalibrationScenario.num_bins]}
    \cup {[event |-> LearnEvent, predictions |-> <<>>, actuals |-> <<>>, num_bins |-> 10]}

\* The outcome lists reported: none, one on an entity without an effect, one
\* on the entity of the effect.
MetricOutcomeLists ==
    {<<>>, <<Outcome("C", ROne, RZero)>>, <<Outcome("B", R(-9, 20), ROne)>>}

InitMetrics ==
    /\ \E in \in MetricInputs :
         LET g == BuildGraph(AllEntities, <<LearnLinks.ab>>)
         IN  /\ entities = g.entities
             /\ outgoing = g.outgoing
             /\ incoming = g.incoming
             /\ event = in.event
             /\ cascade = propagate(in.event, g, DefaultParams)
             /\ predictions = in.predictions
             /\ actuals = in.actuals
             /\ num_bins = in.num_bins
    /\ ret = Call("init", <<>>, <<>>, "None", "")
    /\ params = DefaultParams
    /\ queue = [r \in Runs |-> <<>>]
    /\ visited = [r \in Runs |-> {}]
    /\ effects = [r \in Runs |-> <<>>]
    /\ pc = [r \in Runs |-> "idle"]
    /\ NoSimulation
    /\ stats = <<>>
    /\ calls = 0

\* calculate_accuracy(predictions, actuals)
CalculateAccuracy ==
    /\ ret' = Call("calculate_accuracy", <<predictions, actuals>>,
                   calculate_accuracy(predictions, actuals), "None", "")
    /\ UNCHANGED <<graphVars, propVars, learnVars, simVars, metricVars>>

\* calculate_calibration(predictions, actuals, num_bins)
CalculateCalibration ==
    /\ ret' = Call("calculate_calibration", <<predictions, actuals, num_bins>>,
                   calculate_calibration(predictions, actuals, num_bins), "None", "")
    /\ UNCHANGED <<graphVars, propVars, learnVars, simVars, metricVars>>

NextMetrics ==
    \/ CalculateAccuracy
    \/ CalculateCalibration
    \/ \E outcomes \in MetricOutcomeLists, learning_rate \in LearningRates :
           LearnFromOutcomes(outcomes, learning_rate)

SpecMetrics == InitMetrics /\ [][NextMetrics]_vars

\* No entity id occurs in both lists.
NoSharedEntity(s, t) ==
    {s[i].entity : i \in 1..Len(s)} \cap {t[i].entity : i \in 1..Len(t)} = {}

\* Empty predictions, empty actuals, or no entity in common.
Degenerate(s, t) == s = <<>> \/ t = <<>> \/ NoSharedEntity(s, t)

\* Claim C24: on degenerate inputs (an empty list of predictions/effects, an
\* empty list of outcomes/actuals, or no entity id shared between the two)
\* no call raises, learn_from_outcomes returns links_updated = 0,
\* predictions_matched = 0 and zero averages and leaves every link of the
\* graph as it was, calculate_accuracy returns all-zero metrics with
\* n_predictions = 0, and calculate_calibration returns error 0 and no bins.
C24_DegenerateInputsGiveZeros ==
    [][/\ (ret'.op = "learn_from_outcomes" /\ calls' = calls + 1
           /\ Degenerate(cascade, ret'.args[2]))
          => /\ ret'.raised = "None"
             /\ ret'.value.links_updated = 0
             /\ ret'.value.predictions_matched = 0
             /\ ret'.value.average_magnitude_error = RZero
             /\ ret'.value.average_timing_error = RZero
             /\ ret'.value.direction_accuracy = RZero
             /\ Graph' = Graph
       /\ (ret'.op = "calculate_accuracy" /\ Degenerate(predictions', actuals'))
          => /\ ret'.raised = "None"
             /\ ret'.value.n_predictions = 0
             /\ ret'.value.direction_accuracy = RZero
             /\ ret'.value.magnitude_mae = RZero
             /\ ret'.value.magnitude_mape = RZero
             /\ ret'.value.timing_mae = RZero
             /\ ret'.value.calibration_error = RZero
       /\ (ret'.op = "calculate_calibration" /\ Degenerate(predictions', actuals'))
          => /\ ret'.raised = "None"
             /\ ret'.value.calibration_error = RZero
             /\ DOMAIN ret'.value.bin_details = {}]_vars

\* calculate_calibration has returned from a call whose lists are non-empty
\* and share no entity, after learn_from_outcomes returned from a call on an
\* empty cascade.
C24_Witness ==
    /\ ret.op = "calculate_calibration"
    /\ predictions # <<>> /\ actuals # <<>> /\ NoSharedEntity(predictions, actuals)
    /\ stats # <<>> /\ stats.predictions_matched = 0
    /\ cascade = <<>>

\* The sign of a magnitude: -1, 0 or 1.
Sign(x) == IF RLt(x, RZero) THEN -1 ELSE IF RLt(RZero, x) THEN 1 ELSE 0

\* Claim C25: direction_accuracy of calculate_accuracy is the fraction of
\* matched (prediction, actual) pairs whose magnitudes have the same sign,
\* where a pair of two zero magnitudes counts as a match and a pair with
\* exactly one zero magnitude does not.
C25_DirectionAccuracyBySign ==
    ret.op = "calculate_accuracy" =>
        LET matched == MatchActuals(predictions, actuals)
            n == Len(matched)
        IN  n > 0 =>
              ret.value.direction_accuracy =
                  R(Cardinality({i \in 1..n :
                        Sign(matched[i][1].magnitude) = Sign(matched[i][2].magnitude)}), n)

\* The counts of the reported bins, summed.
RECURSIVE SumCounts(_, _)
SumCounts(bin_details, keys) ==
    IF keys = {} THEN 0
    ELSE LET key == CHOOSE k \in keys : TRUE
         IN  bin_details[key].count + SumCounts(bin_details, keys \ {key})

\* Claim C26: for 100 matched predictions that all have confidence 0.9, 90 of
\* them direction-correct, calculate_calibration with 10 bins reports one
\* bin, 0.9-1.0, with all 100 in it and an error of approximately 0 (within
\* 0.01).
C26_WellCalibratedScenario ==
    (/\ ret.op = "calculate_calibration"
     /\ num_bins = 10
     /\ LET results == CalibrationResults(predictions, actuals)
        IN  /\ Len(results) = 100
            /\ \A i \in 1..100 : results[i].confidence = R(9, 10)
            /\ Cardinality({i \in 1..100 : results[i].correct}) = 90)
    => /\ DOMAIN ret.value.bin_details = {<<R(9, 10), ROne>>}
       /\ ret.value.bin_details[<<R(9, 10), ROne>>].count = 100
       /\ RLt(ret.value.bin_details[<<R(9, 10), ROne>>].error, R(1, 100))

\* Claim C30: calculate_calibration puts every matched prediction whose
\* confidence lies in [0, 1], both ends included, into exactly one bin: when
\* all matched confidences are in [0, 1], the counts of the reported bins sum
\* to the number of matched predictions.
C30_EveryPredictionInOneBin ==
    ret.op = "calculate_calibration" =>
        LET results == CalibrationResults(predictions, actuals)
        IN  (\A i \in 1..Len(results) :
                 RLe(RZero, results[i].confidence) /\ RLe(results[i].confidence, ROne))
            => SumCounts(ret.value.bin_details, DOMAIN ret.value.bin_details)
                   = Len(results)

(***************************************************************************)
(* The timeline of a cascade (propagate.py: Cascade.__post_init__,         *)
(* get_timeline, to_dict; Effect.to_dict).                                 *)
(***************************************************************************)

\* Python's round(x, k) with scale = 10^k: the nearest multiple of 1/scale,
\* ties to even.
RoundTo(a, scale) ==
    LET x == RMul(a, RInt(scale))
        f == x.n \div x.d
        twice == RAdd(RMul(x, RInt(2)), RInt(-2 * f))
        k == IF RLt(twice, ROne) THEN f
             ELSE IF RLt(ROne, twice) THEN f + 1
             ELSE IF f % 2 = 0 THEN f ELSE f + 1
    IN  R(k, scale)

\* day_bucket = int(effect.day) of __post_init__; days are never negative.
day_bucket(effect) == RFloor(effect.day)

\* _by_day[day]: the effects of the day bucket, in the order of `effects`.
by_day(effs, day) ==
    LET OnDay(e) == day_bucket(e) = day
    IN  SelectSeq(effs, OnDay)

\* `periods` of get_timeline.
periods ==
    <<[start |-> 0, end |-> 0, label |-> "Hour 0-4"],
      [start |-> 1, end |-> 1, label |-> "Day 1"],
      [start |-> 2, end |-> 3, label |-> "Day 2-3"],
      [start |-> 4, end |-> 7, label |-> "Day 4-7"],
      [start |-> 8, end |-> 14, label |-> "Day 7-14"],
      [start |-> 15, end |-> 30, label |-> "Day 15-30"]>>

\* period_effects before the sort: the day buckets start..end, one after
\* the other.
PeriodEffects(effs, period) ==
    LET Upto[day \in (period.start - 1)..period.end] ==
            IF day < period.start THEN <<>> ELSE Upto[day - 1] \o by_day(effs, day)
    IN  Upto[period.end]

\* The place of s[i] after period_effects.sort(key=confidence, reverse=True):
\* highest confidence first, equal confidences in their order in s.
ConfidencePos(s, i) ==
    Cardinality({j \in 1..Len(s) : RLt(s[i].confidence, s[j].confidence)})
    + Cardinality({j \in 1..i : s[j].confidence = s[i].confidence})

SortByConfidence(s) ==
    [k \in 1..Len(s) |-> s[CHOOSE i \in 1..Len(s) : ConfidencePos(s, i) = k]]

\* Cascade.get_timeline(): a dict from the labels of the non-empty periods.
get_timeline(effs) ==
    LET filled == {i \in 1..Len(periods) : PeriodEffects(effs, periods[i]) # <<>>}
    IN  [label \in {periods[i].label : i \in filled} |->
            SortByConfidence(
                PeriodEffects(effs, periods[CHOOSE i \in filled : periods[i].label = label]))]

\* Effect.to_dict(); relationship_type and explanation are never set by
\* propagate.
effect_to_dict(e) ==
    LET width == RMul(RMul(RAbs(e.magnitude), RSub(ROne, e.confidence)), R(1, 2))
    IN  [entity |-> e.entity,
         magnitude_percent |-> RoundTo(RMul(e.magnitude, RInt(100)), 100),
         magnitude_range |-> <<RoundTo(RMul(RSub(e.magnitude, width), RInt(100)), 100),
                               RoundTo(RMul(RAdd(e.magnitude, width), RInt(100)), 100)>>,
         day |-> RoundTo(e.day, 10),
         confidence |-> RoundTo(e.confidence, 1000),
         order |-> e.order,
         relationship_type |-> "",
         explanation |-> ""]

\* Cascade.to_dict(); event_type and description of the trigger left out.
cascade_to_dict(trigger, effs, horizon_days) ==
    LET timeline == get_timeline(effs)
    IN  [trigger |-> [entity |-> trigger.entity,
                      magnitude_percent |-> RMul(trigger.magnitude, RInt(100))],
         horizon_days |-> horizon_days,
         total_effects |-> Len(effs),
         effects_by_order |->
             [k \in {effs[i].order : i \in 1..Len(effs)} |->
                 Cardinality({i \in 1..Len(effs) : effs[i].order = k})],
         timeline |->
             [label \in DOMAIN timeline |->
                 [i \in 1..Len(timeline[label]) |-> effect_to_dict(timeline[label][i])]]]

\* Bound of the model: the links of the graph a timeline is made for.
MaxTimelineLinks == 2

\* Links whose delays reach the periods: within the first day, on day 1, on
\* day 5, on day 10, and after a month and a half.
TimelineLinks ==
    {CausalLink("A", "B", "supplier_to", R(1, 2), R(1, 2), RZero, R(4, 5), ROne),
     CausalLink("A", "B", "competes_with", R(3, 4), ROne, RZero, R(9, 10), ROne),
     CausalLink("A", "C", "supplier_to", R(1, 2), ROne, RZero, R(1, 2), ROne),
     CausalLink("B", "C", "supplier_to", R(1, 2), RInt(5), RZero, R(3, 4), ROne),
     CausalLink("A", "C", "competes_with", R(1, 4), RInt(10), RZero, ROne, RInt(-1)),
     CausalLink("B", "C", "competes_with", R(1, 2), RInt(45), RZero, R(4, 5), ROne)}

TimelineLinkSeqs == UNION {[1..n -> TimelineLinks] : n \in 0..MaxTimelineLinks}

\* The horizons asked for: the default, a month, and two months (the API
\* accepts 1..90, api/main.py:90-95).
TimelineParams == {[DefaultParams EXCEPT !.horizon_days = h] : h \in {14, 30, 60}}

InitTimeline ==
    /\ \E links \in TimelineLinkSeqs :
         LET g == BuildGraph(AllEntities, links)
         IN  /\ entities = g.entities
             /\ outgoing = g.outgoing
             /\ incoming = g.incoming
    /\ ret = Call("init", <<>>, <<>>, "None", "")
    /\ event = Event("A", R(-8, 100))
    /\ params \in TimelineParams
    /\ queue = [r \in Runs |-> <<>>]
    /\ visited = [r \in Runs |-> {}]
    /\ effects = [r \in Runs |-> <<>>]
    /\ pc = [r \in Runs |-> IF r = 1 THEN "idle" ELSE "unused"]
    /\ NoLearning
    /\ NoSimulation
    /\ NoMetrics

\* cascade.get_timeline() on the cascade call 1 returned.
GetTimeline ==
    /\ pc[1] = "done"
    /\ ret' = Call("get_timeline", <<>>, get_timeline(effects[1]), "None", "")
    /\ UNCHANGED <<graphVars, propVars, learnVars, simVars, metricVars>>

\* cascade.to_dict() on the cascade call 1 returned.
ToDict ==
    /\ pc[1] = "done"
    /\ ret' = Call("to_dict", <<>>,
                   cascade_to_dict(event, effects[1], params.horizon_days), "None", "")
    /\ UNCHANGED <<graphVars, propVars, learnVars, simVars, metricVars>>

NextTimeline ==
    \/ PropCall(1)
    \/ PropStep(1)
    \/ PropReturn(1)
    \/ GetTimeline
    \/ ToDict

SpecTimeline == InitTimeline /\ [][NextTimeline]_vars

\* The six labels of the timeline.
TimelineLabels == {"Hour 0-4", "Day 1", "Day 2-3", "Day 4-7", "Day 7-14", "Day 15-30"}

\* The timeline a call returned: the value of get_timeline, the "timeline"
\* entry of to_dict.
ReturnedTimeline == IF ret.op = "to_dict" THEN ret.value.timeline ELSE ret.value

\* The lengths of the buckets, summed.
RECURSIVE SumLengths(_, _)
SumLengths(timeline, labels) ==
    IF labels = {} THEN 0
    ELSE LET label == CHOOSE l \in labels : TRUE
         IN  Len(timeline[label]) + SumLengths(timeline, labels \ {label})

\* Claim C27: in the timeline of get_timeline() and of to_dict() the keys are
\* among the six fixed labels, every effect of the cascade is in exactly one
\* bucket, so that the bucket sizes sum to the number of effects
\* (total_effects), and inside a bucket the confidences do not increase.
C27_TimelineHoldsEveryEffect ==
    ret.op \in {"get_timeline", "to_dict"} =>
        LET timeline == ReturnedTimeline
        IN  /\ DOMAIN timeline \subseteq TimelineLabels
            /\ SumLengths(timeline, DOMAIN timeline) = Len(effects[1])
            /\ ret.op = "to_dict" => ret.value.total_effects = Len(effects[1])
            /\ ret.op = "get_timeline" =>
                 \A i \in 1..Len(effects[1]) :
                     Cardinality({<<label, k>> \in (DOMAIN timeline) \X (1..Len(effects[1])) :
                                     /\ k <= Len(timeline[label])
                                     /\ timeline[label][k] = effects[1][i]})
                       = Cardinality({j \in 1..Len(effects[1]) : effects[1][j] = effects[1][i]})
            /\ \A label \in DOMAIN timeline :
                 \A k \in 1..(Len(timeline[label]) - 1) :
                     RLe(timeline[label][k + 1].confidence, timeline[label][k].confidence)

====
